---- MODULE Spec2Model ----
(***************************************************************************)
(* Control-plane orchestration core: execution store (UpdateExecutionRecord *)
(* and the stale-execution reaper), presence leases, the health monitor and *)
(* the status manager.                                                      *)
(*                                                                          *)
(* Each subsystem has its own specification over the shared variables:      *)
(*   SpecStore     the execution table and its writers                      *)
(*   SpecPresence  PresenceManager                                          *)
(*   SpecMonitor   HealthMonitor                                            *)
(*   SpecStatus    StatusManager                                            *)
(***************************************************************************)
EXTENDS Integers, Sequences, FiniteSets, TLC

VARIABLES
    now,          \* wall clock (time.Now()), in ticks
    executions,   \* committed rows of table executions: execution_id -> row
    tx,           \* per caller: the UpdateExecutionRecord call in flight
    ret,          \* what the last UpdateExecutionRecord call to return returned
    reaper,       \* the MarkStaleExecutions call in flight
    ret_reaper,   \* what the last MarkStaleExecutions returned
    completed,    \* per execution: status written by the last committed update
    serialCommits, \* every committed update wrote its updater's result on the row committed before it
    calls,        \* number of UpdateExecutionRecord calls made
    sweeps,       \* number of MarkStaleExecutions calls made
    \* PresenceManager
    leases,       \* pm.leases: node id -> presenceLease
    sweep,        \* the checkExpirations call in flight (its expired slice)
    nextSweep,    \* when the sweep ticker fires next
    pmStats,      \* per node: soft expiries marked, inactive updates issued
    lastOp,       \* the last operation on the lease map
    lastEvicted,  \* the last lease the sweep removed
    \* StatusManager
    agents,       \* durable agent store: node id -> persisted health status
    statusCache,  \* status cache: node id -> cached snapshot
    lastUpdate,   \* the last UpdateAgentStatus call
    clientCalls,  \* health-check client invocations made by the status manager
    client,       \* whether the status manager was built with a health-check client
    probed,       \* per node: the status manager's last probe and writes since
    smRet,        \* what the last GetAgentStatus call returned
    \* HealthMonitor
    unified,      \* hm.statusManager != nil
    activeAgents, \* hm.activeAgents: node id -> ActiveAgent
    poll,         \* the checkActiveAgents call in flight
    nextPoll,     \* when the health-check ticker fires next
    hmPush,       \* per node: the last status a poll pushed downstream
    mcpHealthCache, \* hm.mcpHealthCache: node id -> MCP summary
    published,    \* events and UI notifications of the last monitor step
    unreg,        \* the agent of the UnregisterAgent call in flight, "" if none
    fetched,      \* the GetMCPHealth answer of the last monitor step, if any
    \* Execution handlers
    workflowExecutions, \* execution id -> the row the handlers keep for it
    payloads,     \* execution ids whose input the payload store holds
    downstream,   \* number of calls made to downstream agents
    resp,         \* the last HTTP response a handler wrote
    \* Dashboard handlers
    dashCache,    \* per dashboard: the cached response and its timestamp, if any
    dashReq,      \* per dashboard: the request in flight
    dashResp,     \* per dashboard: the last response written
    \* Workflow run handlers
    runStore,     \* table executions by started_at: run id and status of each row
    runResp,      \* the last response of a workflow run handler
    \* Webhook tables
    webhookEvents, \* registered execution id -> its delivery attempts
    whRet,        \* what the last enriching store call returned
    \* Expiry callback of the presence manager
    expireCallback, \* pm.expireCallback != nil
    callbacks,    \* per node: expiries with a callback registered, goroutines started, calls made
    \* Callers of the monitor
    unregRet,     \* the last UnregisterAgent call a caller watched: its node, whether it was monitored
    \* Agent health of the enhanced dashboard
    fleet,        \* what ListAgents returns: how many agents of each kind
    healthResp    \* Overview and AgentHealth of the last enhanced response built

storeVars == << executions, tx, ret, reaper, ret_reaper, completed, serialCommits,
                calls, sweeps >>
presenceVars == << leases, sweep, nextSweep, pmStats, lastOp, lastEvicted >>
statusVars == << agents, statusCache, lastUpdate, clientCalls, client, probed, smRet >>
monitorVars == << unified, activeAgents, poll, nextPoll, hmPush, mcpHealthCache, published,
                 unreg, fetched >>
dispatchVars == << workflowExecutions, payloads, downstream, resp >>
dashVars == << dashCache, dashReq, dashResp >>
runVars == << runStore, runResp >>
webhookVars == << webhookEvents, whRet >>
handlerVars == << dispatchVars, dashVars, runVars, webhookVars >>
callbackVars == << expireCallback, callbacks >>
unregVars == << unregRet >>
healthVars == << fleet, healthResp >>
restVars == << callbackVars, unregVars, healthVars >>
outsideStore == << presenceVars, statusVars, monitorVars, handlerVars, restVars >>

(***************************************************************************)
(* Bounds                                                                  *)
(***************************************************************************)
MaxTime == 1
MaxCalls == 2
MaxSweeps == 1
TickMS == 1000

ExecIds == {"e1", "e2"}
Callers == {"d1", "d2"}
StaleThresholds == {0, 1}
Limits == {0, 1, 2}

Nodes == {"n1", "n2"}
MaxClock == 10
MaxSkew == 1
MaxPollClock == 2
MaxStatusClock == 4
MaxGets == 3
MaxDispatches == 2
MaxDashClock == 3
MaxRunRows == 2
MaxPage == 2
MaxPageSize == 2
MaxWebhookEvents == 1
MaxRegisterTime == 2
MaxAgents == 13

\* PresenceManagerConfig, in ticks, in the proportions of the defaults
\* NewPresenceManager fills in: the sweep runs every HeartbeatTTL / 3 and the
\* hard eviction threshold lies beyond the heartbeat TTL.
HeartbeatTTL == 6
SweepInterval == HeartbeatTTL \div 3
HardEvictTTL == 10

\* HealthMonitorConfig.CheckInterval and the stability window of the
\* debounce, in ticks of ten seconds.
CheckInterval == 1
StabilityWindow == 3

\* StatusManagerConfig.StatusCacheTTL, in ticks.
StatusCacheTTL == 2
DashboardTTL == 3
DefaultPageSize == 20
PageSizeCeiling == 200
DetailLimit == 10000

\* The agent health list of the enhanced dashboard is cut to 12 items.
HealthListCap == 12

(***************************************************************************)
(* Execution rows                                                          *)
(***************************************************************************)
NullTime == 0 - 1
NullInt == 0 - 1
NullString == ""

ActiveStatuses == {"running", "pending", "queued"}
TerminalStatuses == {"succeeded", "failed", "cancelled", "timeout"}

TimeoutMessage == "execution timed out"

None == << >>
Some(x) == << x >>
IsSome(o) == Len(o) = 1
Get(o) == o[1]

Milliseconds(d) == d * TickMS

NewRow(id, status, startedAt) ==
    [ ExecutionID  |-> id,
      Status       |-> status,
      StartedAt    |-> startedAt,
      CompletedAt  |-> NullTime,
      DurationMS   |-> NullInt,
      ErrorMessage |-> NullString,
      ResultURI    |-> NullString ]

\* scanExecution: sql.ErrNoRows is turned into (nil, nil), a found row into
\* (&exec, nil).
scanExecution(table, id) ==
    IF id \in DOMAIN table THEN Some(table[id]) ELSE None

(***************************************************************************)
(* Updaters: the caller-supplied callbacks handed to UpdateExecutionRecord. *)
(* An updater returns (record, error); record None is a nil return.         *)
(***************************************************************************)
UpdaterKinds == {"succeed", "fail", "cancel", "enrich", "noop", "reject", "fresh"}

CompletionStatus(kind) ==
    CASE kind = "succeed" -> "succeeded"
      [] kind = "fail"    -> "failed"
      [] kind = "cancel"  -> "cancelled"

\* The execution id a retargeting updater puts in the record it returns.
OtherExecution(id) == CHOOSE e \in ExecIds : e # id

Complete(row, status, at) ==
    [ row EXCEPT !.Status       = status,
                 !.CompletedAt  = at,
                 !.DurationMS   = Milliseconds(at - row.StartedAt),
                 !.ErrorMessage = IF status = "failed" THEN "agent error"
                                  ELSE row.ErrorMessage ]

ApplyUpdater(kind, current, id, at) ==
    CASE kind \in {"succeed", "fail", "cancel"} ->
            IF IsSome(current)
            THEN [ err |-> FALSE,
                   rec |-> Some(Complete(Get(current), CompletionStatus(kind), at)) ]
            ELSE [ err |-> TRUE, rec |-> None ]
      [] kind = "enrich" ->
            IF IsSome(current)
            THEN [ err |-> FALSE,
                   rec |-> Some([ Get(current) EXCEPT !.ResultURI = "payload://r" ]) ]
            ELSE [ err |-> TRUE, rec |-> None ]
      [] kind = "noop"   -> [ err |-> FALSE, rec |-> None ]
      [] kind = "reject" -> [ err |-> TRUE, rec |-> None ]
      [] kind = "fresh"  ->
            [ err |-> FALSE, rec |-> Some(NewRow(id, "succeeded", at)) ]
      [] kind = "retarget" ->
            IF IsSome(current)
            THEN [ err |-> FALSE,
                   rec |-> Some([ Complete(Get(current), "failed", at)
                                    EXCEPT !.ExecutionID = OtherExecution(id) ]) ]
            ELSE [ err |-> TRUE, rec |-> None ]

(***************************************************************************)
(* CreateExecutionRecord                                                   *)
(***************************************************************************)
CreateStatuses == {"pending", "running"}

CreateExecutionRecord(id, status) ==
    /\ id \notin DOMAIN executions
    /\ executions' = [ e \in DOMAIN executions \cup {id} |->
                         IF e = id THEN NewRow(id, status, now) ELSE executions[e] ]
    /\ UNCHANGED << now, tx, ret, reaper, ret_reaper, completed, serialCommits, calls, sweeps, outsideStore >>

(***************************************************************************)
(* Transactions.  executions holds the committed rows.  A transaction's     *)
(* UPDATE is buffered in the caller's tx (or in reaper.written) and holds   *)
(* the row until Commit or Rollback.  BeginTx(ctx, nil) asks for the        *)
(* engine's default isolation: the SELECT takes no row lock, so whether a   *)
(* write based on a row that has changed since it was read goes through or  *)
(* is refused is the engine's choice; both outcomes are modelled.           *)
(***************************************************************************)
IdleTx == [ pc |-> "idle", id |-> "", kind |-> "", current |-> None,
            updated |-> None, at |-> 0 ]

NoReturn == [ missing |-> FALSE, err |-> FALSE, rec |-> "nil" ]

IdleReaper == [ pc |-> "idle", stale |-> << >>, i |-> 0, now |-> 0,
                written |-> {}, updated |-> 0, cutoff |-> 0, limit |-> 0 ]

Target(p) == Get(tx[p].updated).ExecutionID

\* rows the reaper's open transaction has updated and holds until it ends
HeldByReaper(id) == reaper.pc = "updating" /\ id \in reaper.written

\* The row was changed, or is being changed, by another transaction since
\* this transaction read it.
WriteConflict(p) ==
    \/ HeldByReaper(Target(p))
    \/ scanExecution(executions, tx[p].id) # tx[p].current

\* rec names the record handed back: "nil", "current" or "updated"
Return(p, err, rec) ==
    ret' = [ missing |-> ~IsSome(tx[p].current), err |-> err, rec |-> rec ]

\* updater == nil: "nil updater" is returned before any transaction begins.
UpdateNilUpdater(p, id) ==
    /\ tx[p].pc = "idle"
    /\ calls < MaxCalls
    /\ calls' = calls + 1
    /\ ret' = [ missing |-> id \notin DOMAIN executions, err |-> TRUE, rec |-> "nil" ]
    /\ UNCHANGED << now, executions, tx, reaper, ret_reaper, completed,
                    serialCommits, sweeps, outsideStore >>

\* BeginTx, SELECT ... WHERE execution_id = ?, scanExecution, updater(current).
UpdateRead(p, id, kind) ==
    /\ tx[p].pc = "idle"
    /\ calls < MaxCalls
    /\ calls' = calls + 1
    /\ LET current == scanExecution(executions, id)
           out     == ApplyUpdater(kind, current, id, now)
       IN  \/ /\ out.err                    \* updater error: rollback
              /\ tx' = tx
              /\ ret' = [ missing |-> ~IsSome(current), err |-> TRUE, rec |-> "nil" ]
           \/ /\ ~out.err /\ ~IsSome(out.rec) \* updated == nil: commit, return current
              /\ tx' = tx
              /\ ret' = [ missing |-> ~IsSome(current), err |-> FALSE,
                          rec |-> IF IsSome(current) THEN "current" ELSE "nil" ]
           \/ /\ ~out.err /\ IsSome(out.rec)
              /\ tx' = [ tx EXCEPT ![p] = [ pc |-> "read", id |-> id, kind |-> kind,
                            current |-> current, updated |-> out.rec, at |-> now ] ]
              /\ ret' = ret
    /\ UNCHANGED << now, executions, reaper, ret_reaper, completed, serialCommits,
                    sweeps, outsideStore >>

\* The row image an UPDATE leaves: every column but execution_id (and
\* created_at) is SET from the record; no row matches an unknown execution_id.
WriteRow(table, rec) ==
    IF rec.ExecutionID \in DOMAIN table
    THEN [ table EXCEPT ![rec.ExecutionID] = rec ]
    ELSE table

\* What the updater yields on the row as committed now.
SerialOutcome(p) ==
    ApplyUpdater(tx[p].kind, scanExecution(executions, tx[p].id), tx[p].id, tx[p].at).rec

\* UPDATE executions SET ... WHERE execution_id = updated.ExecutionID, then
\* Commit; (updated, nil) is returned.  The UPDATE waits while the reaper's
\* transaction holds the row.
UpdateWrite(p) ==
    /\ tx[p].pc = "read"
    /\ ~HeldByReaper(Target(p))
    /\ LET rec == Get(tx[p].updated)
       IN  /\ executions' = WriteRow(executions, rec)
           /\ completed' = IF rec.ExecutionID \in DOMAIN executions
                           THEN [ completed EXCEPT ![rec.ExecutionID] = rec.Status ]
                           ELSE completed
           /\ serialCommits' = (serialCommits /\ tx[p].updated = SerialOutcome(p))
    /\ Return(p, FALSE, "updated")
    /\ tx' = [ tx EXCEPT ![p] = IdleTx ]
    /\ UNCHANGED << now, reaper, ret_reaper, calls, sweeps, outsideStore >>

UpdateWriteRefusedAfterWrite(p) ==
    /\ tx[p].pc = "read"
    /\ WriteConflict(p)
    /\ executions' = WriteRow(executions, Get(tx[p].updated))
    /\ Return(p, TRUE, "nil")
    /\ tx' = [ tx EXCEPT ![p] = IdleTx ]
    /\ UNCHANGED << now, reaper, ret_reaper, completed, serialCommits,
                    calls, sweeps, outsideStore >>

\* The engine refuses the UPDATE or the Commit (busy, serialization failure):
\* the error is returned and the deferred Rollback runs.
UpdateWriteRefused(p) ==
    /\ tx[p].pc = "read"
    /\ WriteConflict(p)
    /\ Return(p, TRUE, "nil")
    /\ tx' = [ tx EXCEPT ![p] = IdleTx ]
    /\ UNCHANGED << now, executions, reaper, ret_reaper, completed, serialCommits,
                    calls, sweeps, outsideStore >>

(***************************************************************************)
(* MarkStaleExecutions(staleAfter, limit)                                  *)
(***************************************************************************)
IsStale(row, cutoff) ==
    row.Status \in ActiveStatuses /\ row.StartedAt <= cutoff

IsSortedByStartedAt(s) ==
    \A i, j \in 1..Len(s) : i < j => s[i].startedAt <= s[j].startedAt

Min(a, b) == IF a < b THEN a ELSE b

\* SELECT execution_id, started_at ... WHERE status IN (...) AND started_at <= ?
\* ORDER BY started_at ASC LIMIT ?: every result the query may return (rows
\* with equal started_at come in an order the engine picks).
StaleSelections(table, cutoff, limit) ==
    LET matching == { e \in DOMAIN table : IsStale(table[e], cutoff) }
        n        == Min(limit, Cardinality(matching))
    IN  { s \in [ 1..n -> [ id : matching, startedAt : 0..MaxTime ] ] :
            /\ \A i \in 1..n : s[i].startedAt = table[s[i].id].StartedAt
            /\ \A i, j \in 1..n : i # j => s[i].id # s[j].id
            /\ IsSortedByStartedAt(s)
            /\ \A e \in matching :
                 (\A i \in 1..n : s[i].id # e) =>
                     \A i \in 1..n : s[i].startedAt <= table[e].StartedAt }

ReaperReturnSelected(count, err) ==
    ret_reaper' = [ count |-> Len(reaper.stale), err |-> err,
                    discarded |-> IF err THEN Cardinality(reaper.written) ELSE 0 ]

\* What MarkStaleExecutions returns; discarded counts the row updates the
\* deferred Rollback undid.
ReaperReturn(count, err) ==
    ret_reaper' = [ count |-> count, err |-> err,
                    discarded |-> IF err THEN Cardinality(reaper.written) ELSE 0 ]

\* limit <= 0 returns (0, nil) at once; otherwise the SELECT runs (outside any
\* transaction) and an empty result returns (0, nil).
SelectStale(staleAfter, limit) ==
    /\ reaper.pc = "idle"
    /\ IF limit <= 0
       THEN /\ reaper' = reaper
            /\ ReaperReturn(0, FALSE)
       ELSE \E stale \in StaleSelections(executions, now - staleAfter, limit) :
              IF Len(stale) = 0
              THEN /\ reaper' = reaper
                   /\ ReaperReturn(0, FALSE)
              ELSE /\ reaper' = [ IdleReaper EXCEPT !.pc = "selected", !.stale = stale,
                                                    !.cutoff = now - staleAfter,
                                                    !.limit = limit ]
                   /\ ret_reaper' = ret_reaper
    /\ UNCHANGED << now, executions, tx, ret, completed, serialCommits, calls, outsideStore >>

ReaperSelect(staleAfter, limit) ==
    /\ sweeps < MaxSweeps
    /\ sweeps' = sweeps + 1
    /\ SelectStale(staleAfter, limit)

\* BeginTx, PrepareContext, now := time.Now().UTC()
ReaperBegin ==
    /\ reaper.pc = "selected"
    /\ reaper' = [ reaper EXCEPT !.pc = "updating", !.i = 1, !.now = now ]
    /\ UNCHANGED << now, executions, tx, ret, ret_reaper, completed, serialCommits, calls, sweeps, outsideStore >>

StaleDurationInTicks(at, startedAt) ==
    IF at - startedAt < 0 THEN 0 ELSE at - startedAt

\* max(0, now - startedAt) in milliseconds
StaleDuration(at, startedAt) ==
    LET d  == IF at - startedAt < 0 THEN 0 ELSE at - startedAt
        ms == Milliseconds(d)
    IN  IF ms < 0 THEN 0 ELSE ms

StaleUpdateMatchesAnyStatus(table, id) ==
    id \in DOMAIN table

StaleUpdateMatchesRunningOnly(table, id) ==
    id \in DOMAIN table /\ table[id].Status = "running"

\* WHERE execution_id = ? AND status IN ('running', 'pending', 'queued')
StaleUpdateMatches(table, id) ==
    id \in DOMAIN table /\ table[id].Status \in ActiveStatuses

StaleUpdateRowResetsStart(row, at, startedAt) ==
    [ row EXCEPT !.Status       = "timeout",
                 !.ErrorMessage = TimeoutMessage,
                 !.StartedAt    = at,
                 !.CompletedAt  = at,
                 !.DurationMS   = StaleDuration(at, startedAt) ]

\* SET status, error_message, completed_at, duration_ms (updated_at omitted)
StaleUpdateRow(row, at, startedAt) ==
    [ row EXCEPT !.Status       = "timeout",
                 !.ErrorMessage = TimeoutMessage,
                 !.CompletedAt  = at,
                 !.DurationMS   = StaleDuration(at, startedAt) ]

\* one iteration of the loop over stale: updateStmt.ExecContext + RowsAffected
ReaperUpdate ==
    /\ reaper.pc = "updating"
    /\ reaper.i <= Len(reaper.stale)
    /\ LET rec == reaper.stale[reaper.i]
       IN  IF StaleUpdateMatches(executions, rec.id)
           THEN reaper' = [ reaper EXCEPT !.i = @ + 1,
                                          !.written = @ \cup {rec.id},
                                          !.updated = @ + 1 ]
           ELSE reaper' = [ reaper EXCEPT !.i = @ + 1 ]
    /\ UNCHANGED << now, executions, tx, ret, ret_reaper, completed, serialCommits, calls, sweeps, outsideStore >>

StartedAtOf(stale, id) ==
    LET i == CHOOSE k \in 1..Len(stale) : stale[k].id = id
    IN  stale[i].startedAt

ReaperCommit ==
    /\ reaper.pc = "updating"
    /\ reaper.i > Len(reaper.stale)
    /\ executions' = [ e \in DOMAIN executions |->
                         IF e \in reaper.written
                         THEN StaleUpdateRow(executions[e], reaper.now,
                                             StartedAtOf(reaper.stale, e))
                         ELSE executions[e] ]
    /\ ReaperReturn(reaper.updated, FALSE)
    /\ reaper' = IdleReaper
    /\ UNCHANGED << now, tx, ret, completed, serialCommits, calls, sweeps, outsideStore >>

\* a statement or the commit fails: (0, err) is returned, Rollback runs
ReaperFail ==
    /\ reaper.pc = "updating"
    /\ ReaperReturn(0, TRUE)
    /\ reaper' = IdleReaper
    /\ UNCHANGED << now, executions, tx, ret, completed, serialCommits, calls, sweeps, outsideStore >>

(***************************************************************************)
(* Agent health of the enhanced dashboard: buildEnhancedOverview and        *)
(* buildAgentHealthSummary over the agents ListAgents returned.  An agent   *)
(* is described by what the builders read of it: whether it is degraded     *)
(* (lifecycle degraded or health inactive) and its last heartbeat; agents   *)
(* that agree in both are interchangeable, so the list is kept as a count   *)
(* per kind.                                                                *)
(***************************************************************************)
HeartbeatTimes == { 0, 1 }

AgentKinds == [ degraded : BOOLEAN, hb : HeartbeatTimes ]

Healthy(h) == [ degraded |-> FALSE, hb |-> h ]
Degraded(h) == [ degraded |-> TRUE, hb |-> h ]

RECURSIVE Total(_, _)
Total(f, keys) ==
    IF keys = {} THEN 0
    ELSE LET k == CHOOSE x \in keys : TRUE
         IN  f[k] + Total(f, keys \ { k })

Fleets == { f \in [ AgentKinds -> 0..MaxAgents ] : Total(f, AgentKinds) <= MaxAgents }

NoHealthResponse ==
    [ built |-> FALSE,
      overview |-> [ TotalAgents |-> 0, ActiveAgents |-> 0, DegradedAgents |-> 0,
                     OfflineAgents |-> 0 ],
      agentHealth |-> [ Total |-> 0, Active |-> 0, Degraded |-> 0, Offline |-> 0,
                        Agents |-> << >> ] ]

\* What the GetAgentStatus calls of one builder answer: for every heartbeat
\* time, how many of the agents that are not degraded are reported running;
\* the others are stopped, or the call fails, or it returns nil.
StatusAnswers(f) ==
    { running \in [ HeartbeatTimes -> 0..MaxAgents ] :
        \A h \in HeartbeatTimes : running[h] <= f[Healthy(h)] }

Repeat(item, n) == [ i \in 1..n |-> item ]

RECURSIVE ItemsOf(_, _, _)
\* The items of the loop of buildAgentHealthSummary, before the sort.
ItemsOf(f, running, times) ==
    IF times = {} THEN << >>
    ELSE LET h == CHOOSE x \in times : TRUE
         IN  Repeat([ Status |-> "degraded", LastHeartbeat |-> h ], f[Degraded(h)])
               \o Repeat([ Status |-> "running", LastHeartbeat |-> h ], running[h])
               \o Repeat([ Status |-> "offline", LastHeartbeat |-> h ],
                         f[Healthy(h)] - running[h])
               \o ItemsOf(f, running, times \ { h })

priority(status) ==
    CASE status = "degraded" -> 0
      [] status = "offline"  -> 1
      [] status = "running"  -> 2
      [] OTHER               -> 3

\* The less function handed to sort.Slice.
ItemBefore(a, b) ==
    IF priority(a.Status) = priority(b.Status)
      THEN a.LastHeartbeat > b.LastHeartbeat
      ELSE priority(a.Status) < priority(b.Status)

RECURSIVE SortItems(_)
SortItems(items) ==
    IF items = << >> THEN << >>
    ELSE LET first == CHOOSE i \in DOMAIN items :
                         \A j \in DOMAIN items : ~ItemBefore(items[j], items[i])
             rest == [ k \in 1..(Len(items) - 1) |->
                         IF k < first THEN items[k] ELSE items[k + 1] ]
         IN  << items[first] >> \o SortItems(rest)

\* items = items[:12]
Capped(items) ==
    IF Len(items) > HealthListCap THEN SubSeq(items, 1, HealthListCap) ELSE items

CountStatus(items, status) ==
    Cardinality({ i \in DOMAIN items : items[i].Status = status })

buildAgentHealthSummary(f, running) ==
    LET items == ItemsOf(f, running, HeartbeatTimes)
    IN  [ Total |-> Total(f, AgentKinds),
          Active |-> CountStatus(items, "running"),
          Degraded |-> CountStatus(items, "degraded"),
          Offline |-> CountStatus(items, "offline"),
          Agents |-> Capped(SortItems(items)) ]

\* The agent counters of buildEnhancedOverview.
buildEnhancedOverview(f, running) ==
    LET items == ItemsOf(f, running, HeartbeatTimes)
    IN  [ TotalAgents |-> Total(f, AgentKinds),
          ActiveAgents |-> CountStatus(items, "running"),
          DegradedAgents |-> CountStatus(items, "degraded"),
          OfflineAgents |-> CountStatus(items, "offline") ]

\* The enhanced handler builds the overview and then the agent health from
\* the same agents; each builder asks the agent service on its own.  One
\* request is answered for the agents that were listed.
BuildAgentHealth ==
    /\ ~healthResp.built
    /\ \E forOverview \in StatusAnswers(fleet), forHealth \in StatusAnswers(fleet) :
          healthResp' = [ built |-> TRUE,
                          overview |-> buildEnhancedOverview(fleet, forOverview),
                          agentHealth |-> buildAgentHealthSummary(fleet, forHealth) ]
    /\ UNCHANGED << now, storeVars, presenceVars, statusVars, monitorVars, handlerVars,
                    callbackVars, unregVars, fleet >>

(***************************************************************************)
(* Clock                                                                   *)
(***************************************************************************)
Tick ==
    /\ now < MaxTime
    /\ now' = now + 1
    /\ UNCHANGED << storeVars, outsideStore >>

(***************************************************************************)
(* Specification of the execution store                                    *)
(***************************************************************************)
vars == << now, storeVars, presenceVars, statusVars, monitorVars, handlerVars, restVars >>

InitBase ==
    /\ now = 0
    /\ executions = << >>
    /\ tx = [ p \in Callers |-> IdleTx ]
    /\ ret = NoReturn
    /\ reaper = IdleReaper
    /\ ret_reaper = [ count |-> 0, err |-> FALSE, discarded |-> 0 ]
    /\ completed = [ e \in ExecIds |-> "" ]
    /\ serialCommits = TRUE
    /\ calls = 0
    /\ sweeps = 0
    /\ leases = << >>
    /\ sweep = [ pc |-> "idle", expired |-> {} ]
    /\ nextSweep = SweepInterval
    /\ pmStats = [ marks |-> [ n \in Nodes |-> 0 ], issued |-> [ n \in Nodes |-> 0 ],
                   episode |-> [ n \in Nodes |-> 0 ] ]
    /\ lastOp = [ op |-> "none", node |-> "", at |-> NullTime, wasOffline |-> FALSE ]
    /\ lastEvicted = << >>
    /\ agents = [ n \in Nodes |-> "absent" ]
    /\ statusCache = [ n \in Nodes |-> << >> ]
    /\ lastUpdate = [ node |-> "", state |-> "", score |-> NullInt, source |-> "", ok |-> FALSE,
                      read |-> FALSE, over |-> "" ]
    /\ clientCalls = 0
    /\ probed = [ n \in Nodes |-> << >> ]
    /\ smRet = [ seq |-> 0, node |-> "", state |-> "", err |-> FALSE, cached |-> FALSE ]
    /\ activeAgents = << >>
    /\ poll = [ pc |-> "idle", agents |-> {}, cur |-> "", newStatus |-> "", was |-> "" ]
    /\ nextPoll = CheckInterval
    /\ hmPush = [ n \in Nodes |-> [ state |-> "", at |-> NullTime, inactiveAt |-> NullTime ] ]
    /\ mcpHealthCache = << >>
    /\ published = << >>
    /\ unreg = ""
    /\ fetched = << >>
    /\ workflowExecutions = << >>
    /\ payloads = {}
    /\ downstream = 0
    /\ resp = [ kind |-> "", target |-> "", code |-> 0, id |-> "", status |-> "",
                result |-> "", error |-> "" ]
    /\ dashCache = [ kind \in { "summary", "enhanced" } |-> << >> ]
    /\ dashReq = [ kind \in { "summary", "enhanced" } |->
                     [ pc |-> "idle", at |-> 0, todo |-> {}, got |-> << >>, errors |-> {} ] ]
    /\ dashResp = [ kind \in { "summary", "enhanced" } |->
                      [ code |-> 0, data |-> << >>, cached |-> FALSE, reads |-> 0, at |-> 0 ] ]
    /\ runStore = << >>
    /\ runResp = [ kind |-> "", code |-> 0, run |-> "", page |-> 0, pageSize |-> 0,
                   runs |-> << >>, hasMore |-> FALSE ]
    /\ webhookEvents = << >>
    /\ whRet = [ op |-> "", id |-> "", kind |-> "", lookup |-> "", err |-> FALSE,
                 recs |-> {} ]
    /\ unregRet = [ node |-> "", found |-> FALSE ]
    /\ expireCallback = FALSE
    /\ callbacks = [ due |-> [ n \in Nodes |-> 0 ], pending |-> [ n \in Nodes |-> 0 ],
                     invoked |-> [ n \in Nodes |-> 0 ], unset |-> FALSE ]
    /\ healthResp = NoHealthResponse

\* No agent is registered yet.
InitCore == InitBase /\ fleet = [ kind \in AgentKinds |-> 0 ]

\* The monitor is wired to the status manager.
Init == InitCore /\ unified = TRUE /\ client = TRUE

\* The enhanced dashboard over every fleet of at most MaxAgents agents.
InitHealth == InitBase /\ unified = TRUE /\ client = TRUE /\ fleet \in Fleets

NextHealth == BuildAgentHealth

SpecHealth == InitHealth /\ [][NextHealth]_vars

NextStore ==
    \/ \E id \in ExecIds, st \in CreateStatuses : CreateExecutionRecord(id, st)
    \/ \E p \in Callers, id \in ExecIds : UpdateNilUpdater(p, id)
    \/ \E p \in Callers, id \in ExecIds, k \in UpdaterKinds : UpdateRead(p, id, k)
    \/ \E p \in Callers : UpdateWrite(p)
    \/ \E p \in Callers : UpdateWriteRefused(p)
    \/ Tick

SpecStore == Init /\ [][NextStore]_vars

(***************************************************************************)
(* The reaper next to one dispatcher                                       *)
(***************************************************************************)
Dispatcher == "d1"
Completions == {"succeed", "fail"}

NextReaper ==
    \/ \E id \in ExecIds, st \in CreateStatuses : CreateExecutionRecord(id, st)
    \/ \E id \in ExecIds, k \in Completions : UpdateRead(Dispatcher, id, k)
    \/ UpdateWrite(Dispatcher)
    \/ UpdateWriteRefused(Dispatcher)
    \/ \E a \in StaleThresholds, l \in Limits : ReaperSelect(a, l)
    \/ ReaperBegin
    \/ ReaperUpdate
    \/ ReaperCommit
    \/ ReaperFail
    \/ Tick

SpecReaper == Init /\ [][NextReaper]_vars

(***************************************************************************)
(* The reaper as it is run: sweep after sweep with one configured           *)
(* threshold and batch size.  A sweep is started whenever none is running   *)
(* and, once started, goes on; row updates and commits do not fail for ever.*)
(***************************************************************************)
BackstopThreshold == 1
BackstopLimit == 1

RepeatedSweep ==
    /\ SelectStale(BackstopThreshold, BackstopLimit)
    /\ sweeps' = sweeps

NextBackstop ==
    \/ \E id \in ExecIds, st \in CreateStatuses : CreateExecutionRecord(id, st)
    \/ \E id \in ExecIds, k \in Completions : UpdateRead(Dispatcher, id, k)
    \/ UpdateWrite(Dispatcher)
    \/ UpdateWriteRefused(Dispatcher)
    \/ RepeatedSweep
    \/ ReaperBegin
    \/ ReaperUpdate
    \/ ReaperCommit
    \/ ReaperFail
    \/ Tick

SpecBackstop ==
    /\ Init
    /\ [][NextBackstop]_vars
    /\ WF_vars(RepeatedSweep)
    /\ WF_vars(ReaperBegin)
    /\ SF_vars(ReaperUpdate)
    /\ SF_vars(ReaperCommit)

(***************************************************************************)
(* StatusManager.UpdateAgentStatus, as far as the presence manager and the *)
(* health monitor depend on it: an update for an agent the durable store   *)
(* does not know fails; otherwise the persisted health follows the new     *)
(* state and the cached snapshot of the agent is invalidated.              *)
(***************************************************************************)
NoUpdate == [ node |-> "", state |-> "", score |-> NullInt, source |-> "", ok |-> FALSE,
              read |-> FALSE, over |-> "" ]

CacheFreshIgnoringTTL(n) == IsSome(statusCache[n])

\* A cached snapshot younger than the cache TTL.
CacheFresh(n) ==
    /\ IsSome(statusCache[n])
    /\ now - Get(statusCache[n]).at < StatusCacheTTL

InvalidatedKeepsEntry(n) == statusCache

\* The cache after a write: the entry of the agent is dropped.
Invalidated(n) == [ statusCache EXCEPT ![n] = None ]

AgentStatusUpdate(state, score, source) ==
    [ state |-> state, score |-> score, source |-> source ]

HealthOf(state) == IF state = "active" THEN "active" ELSE "inactive"

UpdateSucceeds(n) == agents[n] # "absent"

UpdateAgentStatus(n, update) ==
    /\ lastUpdate' = [ node |-> n, state |-> update.state, score |-> update.score,
                       source |-> update.source, ok |-> UpdateSucceeds(n),
                       read |-> FALSE,
                       over |-> IF CacheFresh(n) THEN Get(statusCache[n]).state ELSE "" ]
    /\ IF UpdateSucceeds(n)
         THEN /\ agents' = [ agents EXCEPT ![n] = HealthOf(update.state) ]
              /\ statusCache' = Invalidated(n)
              /\ probed' = [ probed EXCEPT ![n] =
                              IF IsSome(@) THEN Some([ Get(@) EXCEPT !.clean = FALSE ]) ELSE @ ]
         ELSE UNCHANGED << agents, statusCache, probed >>
    /\ UNCHANGED << clientCalls, client, smRet >>

\* storage.RegisterAgent as the callers of registerTestAgent use it: the
\* node enters the durable store with HealthStatus inactive.
RegisterNode(n) ==
    /\ agents[n] = "absent"
    /\ agents' = [ agents EXCEPT ![n] = "inactive" ]
    /\ UNCHANGED << now, storeVars, handlerVars, restVars, presenceVars, monitorVars, statusCache, lastUpdate,
                    clientCalls, client, probed, smRet >>

(***************************************************************************)
(* PresenceManager                                                         *)
(***************************************************************************)
ZeroTime == NullTime

NoOp == [ op |-> "none", node |-> "", at |-> NullTime, wasOffline |-> FALSE ]

IdleSweep == [ pc |-> "idle", expired |-> {} ]

HasLease(n) == n \in DOMAIN leases

TouchedKeepsOffline(n, seenAt) ==
    IF HasLease(n)
      THEN [ leases EXCEPT ![n].LastSeen = seenAt ]
      ELSE [ m \in DOMAIN leases \cup {n} |->
               IF m = n THEN [ LastSeen |-> seenAt, LastExpired |-> ZeroTime,
                               MarkedOffline |-> FALSE ]
                        ELSE leases[m] ]

\* The leases map after Touch(n, seenAt).
Touched(n, seenAt) ==
    IF HasLease(n)
      THEN [ leases EXCEPT ![n].LastSeen = seenAt, ![n].MarkedOffline = FALSE ]
      ELSE [ m \in DOMAIN leases \cup {n} |->
               IF m = n THEN [ LastSeen |-> seenAt, LastExpired |-> ZeroTime,
                               MarkedOffline |-> FALSE ]
                        ELSE leases[m] ]

\* Touch(nodeID, seenAt), with the bookkeeping of the expiry episode: a fresh
\* touch starts a new one.
Touch(n, seenAt) ==
    /\ leases' = Touched(n, seenAt)
    /\ lastOp' = [ op |-> "Touch", node |-> n, at |-> seenAt,
                   wasOffline |-> HasLease(n) /\ leases[n].MarkedOffline ]
    /\ pmStats' = [ pmStats EXCEPT !.episode[n] = 0 ]

\* The leases map after Forget(n).
Forgotten(n) == [ m \in DOMAIN leases \ {n} |-> leases[m] ]

Forget(n) ==
    /\ leases' = Forgotten(n)
    /\ lastOp' = [ op |-> "Forget", node |-> n, at |-> now, wasOffline |-> FALSE ]

\* A heartbeat: the caller records a touch with the time it saw the agent.
SeenTimes == { t \in (now - MaxSkew)..now : t >= 0 }

Heartbeat(n) ==
    /\ \E t \in SeenTimes : Touch(n, t)
    /\ UNCHANGED << now, storeVars, handlerVars, restVars, statusVars, monitorVars, sweep, nextSweep, lastEvicted >>

ForgetNode(n) ==
    /\ HasLease(n)
    /\ Forget(n)
    /\ UNCHANGED << now, storeVars, handlerVars, restVars, statusVars, monitorVars, sweep, nextSweep, pmStats, lastEvicted >>

\* What checkExpirations does with one lease at time t.
LeaseVerdictNoOfflineTest(lease, t) ==
    IF t - lease.LastSeen >= HeartbeatTTL
      THEN "expire"
      ELSE "keep"

LeaseVerdictStrict(lease, t) ==
    IF t - lease.LastSeen > HeartbeatTTL
      THEN IF ~lease.MarkedOffline
             THEN "expire"
             ELSE IF HardEvictTTL > 0 /\ t - lease.LastSeen >= HardEvictTTL
                    THEN "evict"
                    ELSE "keep"
      ELSE "keep"

LeaseVerdict(lease, t) ==
    IF t - lease.LastSeen >= HeartbeatTTL
      THEN IF ~lease.MarkedOffline
             THEN "expire"
             ELSE IF HardEvictTTL > 0 /\ t - lease.LastSeen >= HardEvictTTL
                    THEN "evict"
                    ELSE "keep"
      ELSE "keep"

Expired(t) == { n \in DOMAIN leases : LeaseVerdict(leases[n], t) = "expire" }
Evicted(t) == { n \in DOMAIN leases : LeaseVerdict(leases[n], t) = "evict" }

\* checkExpirations up to pm.mu.Unlock(): the walk over the lease map.
checkExpirations ==
    /\ sweep.pc = "idle"
    /\ now = nextSweep
    /\ leases' = [ n \in DOMAIN leases \ Evicted(now) |->
                     IF n \in Expired(now)
                       THEN [ leases[n] EXCEPT !.MarkedOffline = TRUE,
                                               !.LastExpired = now ]
                       ELSE leases[n] ]
    /\ sweep' = IF Expired(now) = {} THEN IdleSweep
                ELSE [ pc |-> "notify", expired |-> Expired(now) ]
    /\ nextSweep' = nextSweep + SweepInterval
    /\ pmStats' = [ pmStats EXCEPT
                      !.marks = [ n \in Nodes |-> IF n \in Expired(now) THEN @[n] + 1 ELSE @[n] ],
                      !.episode = [ n \in Nodes |-> IF n \in Expired(now) THEN @[n] + 1 ELSE @[n] ] ]
    /\ lastOp' = [ op |-> "checkExpirations", node |-> "", at |-> now, wasOffline |-> FALSE ]
    /\ lastEvicted' = IF Evicted(now) = {} THEN lastEvicted
                      ELSE LET n == CHOOSE m \in Evicted(now) : TRUE
                           IN  Some([ node |-> n, at |-> now,
                                      LastSeen |-> leases[n].LastSeen,
                                      LastExpired |-> leases[n].LastExpired ])
    /\ callbacks' = [ callbacks EXCEPT
                        !.due = [ n \in Nodes |->
                                    IF n \in Expired(now) /\ expireCallback THEN @[n] + 1 ELSE @[n] ] ]
    /\ UNCHANGED << now, unregVars, healthVars, storeVars, handlerVars, expireCallback, statusVars, monitorVars >>

\* markInactive reaches `go callback(nodeID)`: the status update went through
\* and a callback is registered at that moment.
CallbackStarted(n) == UpdateSucceeds(n) /\ expireCallback

\* markInactive(nodeID) for one entry of the expired slice.
markInactive(n) ==
    /\ sweep.pc = "notify"
    /\ n \in sweep.expired
    /\ UpdateAgentStatus(n, AgentStatusUpdate("inactive", 0, "presence"))
    /\ pmStats' = [ pmStats EXCEPT !.issued[n] = @ + 1 ]
    /\ sweep' = IF sweep.expired = {n} THEN IdleSweep
                ELSE [ sweep EXCEPT !.expired = @ \ {n} ]
    /\ callbacks' = IF CallbackStarted(n)
                      THEN [ callbacks EXCEPT !.pending[n] = @ + 1 ]
                      ELSE callbacks
    /\ UNCHANGED << now, unregVars, healthVars, storeVars, handlerVars, expireCallback, monitorVars, leases, nextSweep,
                    lastOp, lastEvicted >>

\* pm.SetExpireCallback(fn); registered is fn != nil.
SetExpireCallback(registered) ==
    /\ expireCallback' = registered
    /\ callbacks' = [ callbacks EXCEPT !.unset = @ \/ (expireCallback /\ ~registered) ]
    /\ UNCHANGED << now, unregVars, healthVars, storeVars, presenceVars, statusVars, monitorVars, handlerVars >>

\* A goroutine started by `go callback(nodeID)` runs the callback.
RunCallback(n) ==
    /\ callbacks.pending[n] > 0
    /\ callbacks' = [ callbacks EXCEPT !.pending[n] = @ - 1, !.invoked[n] = @ + 1 ]
    /\ UNCHANGED << now, unregVars, healthVars, storeVars, presenceVars, statusVars, monitorVars, handlerVars,
                    expireCallback >>

\* Time passes; the ticker fires every SweepInterval and the sweep it starts
\* runs to its end before the clock moves on.
PresenceTick ==
    /\ now < MaxClock
    /\ sweep.pc = "idle"
    /\ now < nextSweep
    /\ now' = now + 1
    /\ UNCHANGED << storeVars, handlerVars, restVars, presenceVars, statusVars, monitorVars >>

NextPresence ==
    \/ \E n \in Nodes : RegisterNode(n)
    \/ \E n \in Nodes : Heartbeat(n)
    \/ \E n \in Nodes : ForgetNode(n)
    \/ checkExpirations
    \/ \E n \in Nodes : markInactive(n)
    \/ PresenceTick

SpecPresence == Init /\ [][NextPresence]_vars

\* A touch that is delivered HeartbeatTTL after the caller took its
\* timestamp; Touch takes seenAt from its caller and compares it with nothing.
LateTouch(n) ==
    /\ now >= HeartbeatTTL
    /\ Touch(n, now - HeartbeatTTL)
    /\ UNCHANGED << now, storeVars, handlerVars, restVars, statusVars, monitorVars, sweep, nextSweep, lastEvicted >>

NextLate ==
    \/ NextPresence
    \/ \E n \in Nodes : LateTouch(n)

SpecLate == Init /\ [][NextLate]_vars

\* The presence manager with an expiry callback.
NextCallback ==
    \/ NextPresence
    \/ \E registered \in BOOLEAN : SetExpireCallback(registered)
    \/ \E n \in Nodes : RunCallback(n)

SpecCallback == Init /\ [][NextCallback]_vars

(***************************************************************************)
(* HealthMonitor                                                           *)
(***************************************************************************)
NoPoll == [ pc |-> "idle", agents |-> {}, cur |-> "", newStatus |-> "", was |-> "" ]

NoPush == [ state |-> "", at |-> NullTime, inactiveAt |-> NullTime ]

IsMonitoredAlways(n) == TRUE

\* _, exists := hm.activeAgents[nodeID]
IsMonitored(n) == n \in DOMAIN activeAgents

\* storage.UpdateAgentHealth, the legacy write: the persisted health of a
\* known agent is overwritten; the status manager is not involved.
HealthUpdateSucceeds(n) == agents[n] # "absent"

UpdateAgentHealth(n, status) ==
    /\ agents' = IF HealthUpdateSucceeds(n) THEN [ agents EXCEPT ![n] = status ] ELSE agents
    /\ UNCHANGED << statusCache, lastUpdate, clientCalls, client, probed, smRet >>

\* agentsMutex is held by an UnregisterAgent call that has not returned yet.
RegistryLocked == unreg # ""

RegisterAgent(n) ==
    /\ ~RegistryLocked
    /\ activeAgents' = [ m \in DOMAIN activeAgents \cup {n} |->
                           IF m = n THEN [ LastStatus |-> "unknown", LastChecked |-> now ]
                                    ELSE activeAgents[m] ]
    /\ Touch(n, now)
    /\ hmPush' = [ hmPush EXCEPT ![n] = NoPush ]
    /\ published' = << >>
    /\ fetched' = None
    /\ UNCHANGED << now, storeVars, handlerVars, restVars, statusVars, sweep, nextSweep, lastEvicted,
                    unified, unreg, poll, nextPoll, mcpHealthCache >>

\* UnregisterAgent up to presence.Forget; an agent that is not in the
\* registry makes the call return at once.
UnregisterEffect(n) ==
    IF ~IsMonitored(n)
      THEN UNCHANGED << now, storeVars, handlerVars, presenceVars, statusVars, monitorVars >>
      ELSE /\ activeAgents' = [ m \in DOMAIN activeAgents \ {n} |-> activeAgents[m] ]
           /\ Forget(n)
           /\ hmPush' = [ hmPush EXCEPT ![n] = NoPush ]
           /\ unreg' = n
           /\ published' = << >>
           /\ fetched' = None
           /\ UNCHANGED << now, storeVars, handlerVars, statusVars, sweep, nextSweep, pmStats,
                           lastEvicted, unified, poll, nextPoll, mcpHealthCache >>

UnregisterAgent(n) ==
    /\ ~RegistryLocked
    /\ UnregisterEffect(n)
    /\ UNCHANGED restVars

\* The rest of UnregisterAgent: the inactive update, then the return, which
\* releases agentsMutex.
UnregisterPush ==
    /\ RegistryLocked
    /\ unreg' = ""
    /\ IF unified
         THEN \* a failed update falls back to UpdateAgentHealth, which
              \* fails on the same unknown agent
              /\ UpdateAgentStatus(unreg, AgentStatusUpdate("inactive", 0, "health-check"))
              /\ published' = << >>
         ELSE /\ UpdateAgentHealth(unreg, "inactive")
              /\ published' = IF HealthUpdateSucceeds(unreg)
                                THEN << "NodeOffline", "NodeHealthChanged", "OnNodeStatusChanged" >>
                                ELSE << >>
    /\ fetched' = None
    /\ UNCHANGED << now, storeVars, handlerVars, restVars, presenceVars, unified, activeAgents, poll, nextPoll,
                    hmPush, mcpHealthCache >>

\* checkActiveAgents: the snapshot of the registry taken under the read lock.
checkActiveAgents ==
    /\ ~RegistryLocked
    /\ poll.pc = "idle"
    /\ now = nextPoll
    /\ nextPoll' = nextPoll + CheckInterval
    /\ poll' = IF DOMAIN activeAgents = {} THEN NoPoll
               ELSE [ NoPoll EXCEPT !.pc = "probe", !.agents = DOMAIN activeAgents ]
    /\ UNCHANGED << now, storeVars, handlerVars, restVars, presenceVars, statusVars,
                    unified, unreg, activeAgents, hmPush, mcpHealthCache, published, fetched >>

PollAfterEndsSweep(n) == NoPoll

\* The sweep after checkAgentHealth has returned for n.
PollAfter(n) ==
    IF poll.agents = {n} THEN NoPoll
    ELSE [ NoPoll EXCEPT !.pc = "probe", !.agents = poll.agents \ {n} ]

\* What agentClient.GetAgentStatus can answer, and the health it maps to.
ProbeResults == {"running", "stopped", "error"}

HealthFromProbe(r) == IF r = "running" THEN "active" ELSE "inactive"

\* checkAgentHealth up to the answer of the probe, for an agent whose
\* answers are among results.
ProbeAnswering(n, results) ==
    /\ ~RegistryLocked
    /\ poll.pc = "probe"
    /\ n \in poll.agents
    /\ IF ~IsMonitored(n)
         THEN poll' = PollAfter(n)
         ELSE \E r \in results :
                 poll' = [ poll EXCEPT !.pc = "apply", !.cur = n,
                                       !.newStatus = HealthFromProbe(r) ]
    /\ UNCHANGED << now, storeVars, handlerVars, restVars, presenceVars, statusVars,
                    unified, unreg, activeAgents, nextPoll, hmPush, mcpHealthCache,
                    published, fetched >>

ProbeAgent(n) == ProbeAnswering(n, ProbeResults)

StatusChangedAlways(lastStatus, newStatus) == TRUE

\* statusChanged := activeAgent.LastStatus != newStatus
StatusChanged(lastStatus, newStatus) == lastStatus # newStatus

DebouncedWhenActive(newStatus, entry, t) == newStatus = "active"

\* The debounce test of checkAgentHealth.  It reads the registry entry after
\* the locked block has stored the new status and the check time in it.
Debounced(newStatus, entry, t) ==
    /\ newStatus = "active"
    /\ entry.LastStatus = "inactive"
    /\ t - entry.LastChecked < StabilityWindow

StateOf(status) == IF status = "active" THEN "active" ELSE "inactive"

ScoreOf(status) == IF status = "active" THEN 75 ELSE 0

\* MCP summaries an agent may report; None is a failed GetMCPHealth.
MCPSummaries ==
    { [ TotalServers |-> 1, RunningServers |-> 1, TotalTools |-> 2, OverallHealth |-> 100 ],
      [ TotalServers |-> 1, RunningServers |-> 0, TotalTools |-> 2, OverallHealth |-> 0 ] }

MCPOutcomes == { None } \cup { Some(s) : s \in MCPSummaries }

hasMCPHealthChangedServersOnly(n, newSummary) ==
    \/ n \notin DOMAIN mcpHealthCache
    \/ mcpHealthCache[n].TotalServers # newSummary.TotalServers
    \/ mcpHealthCache[n].RunningServers # newSummary.RunningServers

hasMCPHealthChanged(n, newSummary) ==
    \/ n \notin DOMAIN mcpHealthCache
    \/ mcpHealthCache[n].TotalServers # newSummary.TotalServers
    \/ mcpHealthCache[n].RunningServers # newSummary.RunningServers
    \/ mcpHealthCache[n].TotalTools # newSummary.TotalTools
    \/ mcpHealthCache[n].OverallHealth # newSummary.OverallHealth

updateMCPHealthCache(n, summary) ==
    [ m \in DOMAIN mcpHealthCache \cup {n} |->
        IF m = n THEN summary ELSE mcpHealthCache[m] ]

\* checkMCPHealthForNode: the cache it leaves and what it publishes.
MCPCacheAfter(n, outcome) ==
    IF IsSome(outcome) /\ hasMCPHealthChanged(n, Get(outcome))
      THEN updateMCPHealthCache(n, Get(outcome))
      ELSE mcpHealthCache

MCPPublished(n, outcome) ==
    IF IsSome(outcome) /\ hasMCPHealthChanged(n, Get(outcome))
      THEN << "OnMCPHealthChanged" >>
      ELSE << >>

\* checkMCPHealthForNode(n) when GetMCPHealth answers outcome; before is what
\* the caller has published already.
checkMCPHealthForNode(n, outcome, before) ==
    /\ mcpHealthCache' = MCPCacheAfter(n, outcome)
    /\ published' = before \o MCPPublished(n, outcome)
    /\ fetched' = Some([ node |-> n, outcome |-> outcome ])

\* The downstream push of a changed status.
PushStatus(n, newStatus, mcp) ==
    /\ hmPush' = [ hmPush EXCEPT ![n] =
                     [ state |-> newStatus, at |-> now,
                       inactiveAt |-> IF newStatus = "inactive" THEN now ELSE @.inactiveAt ] ]
    /\ IF unified
         THEN /\ UpdateAgentStatus(n, AgentStatusUpdate(StateOf(newStatus),
                                                        ScoreOf(newStatus), "health-check"))
              /\ IF UpdateSucceeds(n) /\ newStatus = "active"
                   THEN Touch(n, now)
                   ELSE UNCHANGED << leases, lastOp, pmStats >>
              /\ IF newStatus = "active"
                   THEN checkMCPHealthForNode(n, mcp, << >>)
                   ELSE /\ published' = << >>
                        /\ UNCHANGED << mcpHealthCache, fetched >>
         ELSE /\ UpdateAgentHealth(n, newStatus)
              /\ IF ~HealthUpdateSucceeds(n)
                   THEN /\ published' = << >>
                        /\ UNCHANGED << leases, lastOp, pmStats, mcpHealthCache, fetched >>
                   ELSE IF newStatus = "active"
                     THEN /\ Touch(n, now)
                          /\ checkMCPHealthForNode(n, mcp,
                                << "NodeOnline", "NodeHealthChanged", "OnNodeStatusChanged" >>)
                     ELSE /\ published' = << "NodeOffline", "NodeHealthChanged",
                                             "OnNodeStatusChanged" >>
                          /\ UNCHANGED << leases, lastOp, pmStats, mcpHealthCache, fetched >>

\* checkAgentHealth, the block under agentsMutex and the decision to push.
ApplyProbe ==
    /\ ~RegistryLocked
    /\ poll.pc = "apply"
    /\ LET n == poll.cur
           newStatus == poll.newStatus
       IN  IF ~IsMonitored(n)
             THEN /\ poll' = PollAfter(n)
                  /\ activeAgents' = activeAgents
             ELSE LET entry == [ LastStatus |-> newStatus, LastChecked |-> now ]
                  IN  /\ activeAgents' = [ activeAgents EXCEPT ![n] = entry ]
                      /\ poll' = IF /\ StatusChanged(activeAgents[n].LastStatus, newStatus)
                                    /\ ~Debounced(newStatus, entry, now)
                                   THEN [ poll EXCEPT !.pc = "push",
                                                      !.was = activeAgents[n].LastStatus ]
                                   ELSE PollAfter(n)
    /\ published' = << >>
    /\ fetched' = None
    /\ UNCHANGED << now, storeVars, handlerVars, restVars, presenceVars, statusVars, unified, unreg, nextPoll,
                    hmPush, mcpHealthCache >>

\* checkAgentHealth after agentsMutex is released: the status update, the
\* presence touch and the MCP check.
PushProbe ==
    /\ poll.pc = "push"
    /\ poll' = PollAfter(poll.cur)
    /\ \E mcp \in MCPOutcomes : PushStatus(poll.cur, poll.newStatus, mcp)
    /\ UNCHANGED << now, storeVars, handlerVars, restVars, sweep, nextSweep, lastEvicted, unified, unreg,
                    activeAgents, nextPoll >>

\* Time passes; the ticker fires every CheckInterval and the sweep it starts
\* runs to its end before the clock moves on.
MonitorTick ==
    /\ now < MaxPollClock
    /\ poll.pc = "idle"
    /\ ~RegistryLocked
    /\ now < nextPoll
    /\ now' = now + 1
    /\ UNCHANGED << storeVars, handlerVars, restVars, presenceVars, statusVars, monitorVars >>

\* A monitor built with or without a status manager.
InitMonitor == InitCore /\ unified \in BOOLEAN /\ client = TRUE

NextMonitor ==
    \/ \E n \in Nodes : RegisterNode(n)
    \/ \E n \in Nodes : RegisterAgent(n)
    \/ \E n \in Nodes : UnregisterAgent(n)
    \/ UnregisterPush
    \/ checkActiveAgents
    \/ \E n \in Nodes : ProbeAgent(n)
    \/ ApplyProbe
    \/ PushProbe
    \/ MonitorTick

SpecMonitor == InitMonitor /\ [][NextMonitor]_vars

\* DELETE /internal/nodes/:node_id/monitor: the caller sees the call return.
unregisterAgentFromMonitoring(n) ==
    /\ ~RegistryLocked
    /\ UnregisterEffect(n)
    /\ unregRet' = [ node |-> n, found |-> n \in DOMAIN activeAgents ]
    /\ UNCHANGED << callbackVars, healthVars >>

\* Registrations, heartbeats and unregistrations, with no poll running.
NextUnregister ==
    \/ \E n \in Nodes : RegisterNode(n)
    \/ \E n \in Nodes : RegisterAgent(n)
    \/ \E n \in Nodes : Heartbeat(n)
    \/ \E n \in Nodes : unregisterAgentFromMonitoring(n)
    \/ UnregisterPush
    \/ MonitorTick

SpecUnregister == InitMonitor /\ [][NextUnregister]_vars

\* The monitor and the presence manager side by side, for agents that are
\* registered once, in the store and then with the monitor no later than
\* MaxRegisterTime, send no
\* heartbeat and answer every poll with running.  Both tickers fire and every
\* goroutine that was started runs on.
ConvergeTick ==
    /\ now < MaxClock
    /\ poll.pc = "idle"
    /\ sweep.pc = "idle"
    /\ now < nextPoll
    /\ now < nextSweep
    /\ now' = now + 1
    /\ UNCHANGED << storeVars, handlerVars, restVars, presenceVars, statusVars, monitorVars >>

ConvergeStep ==
    \/ checkActiveAgents
    \/ \E n \in Nodes : ProbeAnswering(n, {"running"})
    \/ ApplyProbe
    \/ PushProbe
    \/ checkExpirations
    \/ \E n \in Nodes : markInactive(n)
    \/ ConvergeTick

\* The node registration: the node is in the store before the monitor is
\* told about it.
RegisterOnce(n) ==
    /\ now <= MaxRegisterTime
    /\ agents[n] # "absent"
    /\ ~IsMonitored(n)
    /\ RegisterAgent(n)

NextConverge ==
    \/ \E n \in Nodes : RegisterNode(n)
    \/ \E n \in Nodes : RegisterOnce(n)
    \/ ConvergeStep

SpecConverge == Init /\ [][NextConverge]_vars /\ WF_vars(ConvergeStep)

\* checkMCPHealthForNode on its own: every summary GetMCPHealth may return,
\* field by field, and the failed fetch.
MCPFetchSummaries ==
    [ TotalServers : {1, 2}, RunningServers : {0, 1},
      TotalTools : {2, 3}, OverallHealth : {0, 100} ]

MCPFetchOutcomes == { None } \cup { Some(s) : s \in MCPFetchSummaries }

FetchMCPHealth(n) ==
    /\ \E outcome \in MCPFetchOutcomes : checkMCPHealthForNode(n, outcome, << >>)
    /\ UNCHANGED << now, storeVars, handlerVars, restVars, presenceVars, statusVars, unified, activeAgents,
                    poll, nextPoll, hmPush, unreg >>

NextMCP == \E n \in Nodes : FetchMCPHealth(n)

SpecMCP == Init /\ [][NextMCP]_vars

(***************************************************************************)
(* StatusManager.GetAgentStatus: a cached snapshot younger than the cache   *)
(* TTL is served as it is; otherwise the manager reconciles by probing the  *)
(* agent through the health-check client, persists the outcome and caches   *)
(* the new snapshot.                                                        *)
(***************************************************************************)
\* What the health-check client can answer: a running agent or an error.
ClientResults == {"running", "error"}

ReconciledAlwaysActive(r) == "active"

Reconciled(r) == IF r = "running" THEN "active" ELSE "inactive"

Returned(n, state, err, cached) ==
    [ seq |-> smRet.seq + 1, node |-> n, state |-> state, err |-> err, cached |-> cached ]

GetAgentStatus(n) ==
    /\ smRet.seq < MaxGets
    /\ IF agents[n] = "absent"
         THEN /\ smRet' = Returned(n, "", TRUE, FALSE)
              /\ UNCHANGED << agents, statusCache, clientCalls, probed >>
         ELSE IF CacheFresh(n)
           THEN /\ smRet' = Returned(n, Get(statusCache[n]).state, FALSE, TRUE)
                /\ UNCHANGED << agents, statusCache, clientCalls, probed >>
           ELSE IF ~client
             THEN \* no client to probe with: the snapshot is derived from
                  \* the persisted health of the agent
                  /\ statusCache' = [ statusCache EXCEPT ![n] =
                                        Some([ state |-> agents[n], at |-> now ]) ]
                  /\ smRet' = Returned(n, agents[n], FALSE, FALSE)
                  /\ UNCHANGED << agents, clientCalls, probed >>
             ELSE \E r \in ClientResults :
                     /\ clientCalls' = clientCalls + 1
                     /\ agents' = [ agents EXCEPT ![n] = HealthOf(Reconciled(r)) ]
                     /\ statusCache' = [ statusCache EXCEPT ![n] =
                                           Some([ state |-> Reconciled(r), at |-> now ]) ]
                     /\ probed' = [ probed EXCEPT ![n] =
                                      Some([ at |-> now, state |-> Reconciled(r), clean |-> TRUE,
                                             answer |-> r ]) ]
                     /\ smRet' = Returned(n, Reconciled(r), FALSE, FALSE)
    /\ lastUpdate' = IF lastUpdate.node = n THEN [ lastUpdate EXCEPT !.read = TRUE ]
                                            ELSE lastUpdate
    /\ UNCHANGED << now, storeVars, handlerVars, restVars, presenceVars, monitorVars, client >>

\* Updates from outside the monitor and the presence sweep.
UpdateSources == {"heartbeat", "manual"}

UpdateStatus(n) ==
    /\ \E state \in {"active", "inactive"}, source \in UpdateSources :
          UpdateAgentStatus(n, AgentStatusUpdate(state, NullInt, source))
    /\ UNCHANGED << now, storeVars, handlerVars, restVars, presenceVars, monitorVars >>

StatusTick ==
    /\ now < MaxStatusClock
    /\ now' = now + 1
    /\ UNCHANGED << storeVars, handlerVars, restVars, presenceVars, statusVars, monitorVars >>

NextStatus ==
    \/ \E n \in Nodes : RegisterNode(n)
    \/ \E n \in Nodes : GetAgentStatus(n)
    \/ \E n \in Nodes : UpdateStatus(n)
    \/ StatusTick

\* A status manager built with or without a health-check client.
InitStatus == InitCore /\ unified = TRUE /\ client \in BOOLEAN

SpecStatus == InitStatus /\ [][NextStatus]_vars

(***************************************************************************)
(* The execute handlers.  A target is agentId.functionName; the handler     *)
(* resolves it, saves the input in the payload store, creates the row of    *)
(* the execution and calls the downstream agent.  The synchronous handler   *)
(* answers when the agent has answered, the asynchronous one at once.       *)
(***************************************************************************)
NoResponse == [ kind |-> "", target |-> "", code |-> 0, id |-> "", status |-> "",
                result |-> "", error |-> "" ]

\* The agent the handlers know and the function it exposes, and what callers ask for.
KnownTargets == { "node-1.reasoner-a" }

Targets == KnownTargets \cup { "node-1.unknown", "node-2.reasoner-a" }

ExecutionIDs == { "x" \o ToString(i) : i \in 1..MaxDispatches }

\* The id the next execution gets.
NextExecutionID == "x" \o ToString(Cardinality(DOMAIN workflowExecutions) + 1)

\* What the downstream agent can do with a call: answer, fail, or run into
\* the deadline of the call.
DownstreamOutcomes ==
    { [ ok |-> TRUE, result |-> "answer-42", error |-> "" ],
      [ ok |-> FALSE, result |-> "", error |-> "boom" ],
      [ ok |-> FALSE, result |-> "", error |-> "context deadline exceeded" ] }

ResolvesAgentOnly(target) == target \in { "node-1.reasoner-a", "node-1.unknown" }

\* The agent is known and exposes the function.
Resolves(target) == target \in KnownTargets

NotFoundResponse(kind, target) ==
    [ NoResponse EXCEPT !.kind = kind, !.target = target, !.code = 404 ]

\* A target that cannot be resolved: the answer is NotFound and nothing else happens.
TargetNotFound(kind, target) ==
    /\ resp' = NotFoundResponse(kind, target)
    /\ UNCHANGED << workflowExecutions, payloads, downstream >>

\* The payload store refused the input: the dispatch fails before a row exists.
PayloadRefused(kind, target) ==
    /\ resp' = [ NoResponse EXCEPT !.kind = kind, !.target = target, !.code = 500,
                                   !.error = "payload store" ]
    /\ UNCHANGED << workflowExecutions, payloads, downstream >>

\* Input saved, row created, downstream agent called.
Dispatch(target, wait) ==
    LET id == NextExecutionID
    IN  /\ payloads' = payloads \cup {id}
        /\ workflowExecutions' =
              [ x \in DOMAIN workflowExecutions \cup {id} |->
                  IF x = id
                    THEN [ target |-> target, wait |-> wait,
                           status |-> IF wait THEN "running" ELSE "pending",
                           result |-> "", error |-> "", answer |-> << >> ]
                    ELSE workflowExecutions[x] ]
        /\ downstream' = downstream + 1

\* ExecuteHandler up to the downstream call; it answers in DownstreamReturns.
ExecuteHandler(target) ==
    /\ Cardinality(DOMAIN workflowExecutions) < MaxDispatches
    /\ \/ ~Resolves(target) /\ TargetNotFound("execute", target)
       \/ Resolves(target) /\ PayloadRefused("execute", target)
       \/ Resolves(target) /\ Dispatch(target, TRUE) /\ resp' = resp
    /\ UNCHANGED << now, storeVars, presenceVars, restVars, statusVars, monitorVars, dashVars, runVars, webhookVars >>

\* ExecuteAsyncHandler: 202 with status pending as soon as the row exists.
ExecuteAsyncHandler(target) ==
    /\ Cardinality(DOMAIN workflowExecutions) < MaxDispatches
    /\ \/ ~Resolves(target) /\ TargetNotFound("async", target)
       \/ Resolves(target) /\ PayloadRefused("async", target)
       \/ /\ Resolves(target)
          /\ Dispatch(target, FALSE)
          /\ resp' = [ NoResponse EXCEPT !.kind = "async", !.target = target, !.code = 202,
                                         !.id = NextExecutionID, !.status = "pending" ]
    /\ UNCHANGED << now, storeVars, presenceVars, restVars, statusVars, monitorVars, dashVars, runVars, webhookVars >>

CompletedStatusLeavesRunning(outcome) == IF outcome.ok THEN "succeeded" ELSE "running"

\* The status a finished downstream call gives the execution.
CompletedStatus(outcome) == IF outcome.ok THEN "succeeded" ELSE "failed"

CompletedRowDropsResult(row, outcome) ==
    [ row EXCEPT !.status = CompletedStatus(outcome), !.answer = << outcome >> ]

\* The completion update of the row.
CompletedRow(row, outcome) ==
    [ row EXCEPT !.status = CompletedStatus(outcome),
                 !.result = outcome.result,
                 !.error = outcome.error,
                 !.answer = << outcome >> ]

\* The downstream call of execution id is over: the row is updated, and the
\* synchronous handler, which was blocked on the call, answers 200 with the
\* completed execution.
DownstreamReturns(id) ==
    /\ id \in DOMAIN workflowExecutions
    /\ workflowExecutions[id].answer = << >>
    /\ \E outcome \in DownstreamOutcomes :
          LET row == CompletedRow(workflowExecutions[id], outcome)
          IN  /\ workflowExecutions' = [ workflowExecutions EXCEPT ![id] = row ]
              /\ resp' = IF row.wait
                           THEN [ kind |-> "execute", target |-> row.target,
                                  code |-> 200, id |-> id,
                                  status |-> row.status, result |-> row.result,
                                  error |-> row.error ]
                           ELSE resp
    /\ UNCHANGED << now, storeVars, presenceVars, restVars, statusVars, monitorVars, dashVars, runVars, webhookVars, payloads, downstream >>

\* GetExecutionStatusHandler: the status and the stored result of the row.
GetExecutionStatusHandler(id) ==
    /\ resp' = IF id \in DOMAIN workflowExecutions
                 THEN [ kind |-> "status", target |-> "", code |-> 200, id |-> id,
                        status |-> workflowExecutions[id].status,
                        result |-> workflowExecutions[id].result,
                        error |-> workflowExecutions[id].error ]
                 ELSE [ NotFoundResponse("status", "") EXCEPT !.id = id ]
    /\ UNCHANGED << now, storeVars, presenceVars, restVars, statusVars, monitorVars, dashVars, runVars, webhookVars,
                    workflowExecutions, payloads, downstream >>

NextDispatch ==
    \/ \E target \in Targets : ExecuteHandler(target)
    \/ \E target \in Targets : ExecuteAsyncHandler(target)
    \/ \E id \in ExecutionIDs : DownstreamReturns(id)
    \/ \E id \in ExecutionIDs : GetExecutionStatusHandler(id)

SpecDispatch == Init /\ [][NextDispatch]_vars

(***************************************************************************)
(* The dashboard handlers.  Each keeps a cache with a TTL of 30 seconds,    *)
(* three ticks of the clock.  The summary handler fans out three reads and  *)
(* waits for all of them; the enhanced handler reads in sequence and        *)
(* returns at the first failure.                                            *)
(***************************************************************************)
DashboardKinds == { "summary", "enhanced" }

\* The goroutines of GetDashboardSummaryHandler.
SummaryReads == { "agents", "executions", "packages" }

\* The reads of GetEnhancedDashboardSummaryHandler, in the order it makes them.
EnhancedReads == << "executions", "agents", "running" >>

ReadsOf(kind) ==
    IF kind = "summary" THEN SummaryReads
    ELSE { EnhancedReads[i] : i \in 1..Len(EnhancedReads) }

\* A read returns its rows, returns an error, or returns rows of which the
\* per-item lookup (agent status, package configuration) failed and was
\* skipped: in that case the read reports no error and counts less.
ReadOutcomes == { "ok", "undercounted", "error" }

IdleRequest == [ pc |-> "idle", at |-> 0, todo |-> {}, got |-> << >>, errors |-> {} ]

NoDashboardResponse == [ code |-> 0, data |-> << >>, cached |-> FALSE, reads |-> 0, at |-> 0 ]

CacheValidInclusive(kind, t) ==
    /\ IsSome(dashCache[kind])
    /\ t - Get(dashCache[kind]).timestamp <= DashboardTTL

\* DashboardCache.Get / EnhancedDashboardCache.Get at time t.
CacheValid(kind, t) ==
    /\ IsSome(dashCache[kind])
    /\ t - Get(dashCache[kind]).timestamp < DashboardTTL

\* DashboardCache.Set / EnhancedDashboardCache.Set.
CacheSet(kind, data) ==
    [ dashCache EXCEPT ![kind] = Some([ data |-> data, timestamp |-> now ]) ]

\* The head of both handlers: a valid cache entry is the answer, otherwise
\* the reads start.
Arrive(kind) ==
    /\ dashReq[kind].pc = "idle"
    /\ IF CacheValid(kind, now)
         THEN /\ dashResp' = [ dashResp EXCEPT ![kind] =
                                 [ code |-> 200, data |-> << Get(dashCache[kind]).data >>,
                                   cached |-> TRUE, reads |-> 0, at |-> now ] ]
              /\ UNCHANGED dashReq
         ELSE /\ dashReq' = [ dashReq EXCEPT ![kind] =
                                [ IdleRequest EXCEPT !.pc = "reading", !.at = now,
                                                     !.todo = ReadsOf(kind) ] ]
              /\ UNCHANGED dashResp
    /\ UNCHANGED << now, storeVars, presenceVars, restVars, statusVars, monitorVars, dispatchVars, runVars, webhookVars,
                    dashCache >>

GetDashboardSummaryHandler == Arrive("summary")

GetEnhancedDashboardSummaryHandler == Arrive("enhanced")

\* The request after read r has returned outcome.
AfterRead(req, r, outcome) ==
    [ req EXCEPT !.todo = @ \ {r},
                 !.got = IF outcome = "error" THEN @
                         ELSE [ x \in DOMAIN @ \cup {r} |-> IF x = r THEN outcome ELSE @[x] ],
                 !.errors = IF outcome = "error" THEN @ \cup {r} ELSE @ ]

ErrorResponse(req) ==
    [ code |-> 500, data |-> << >>, cached |-> FALSE,
      reads |-> Cardinality(DOMAIN req.got) + Cardinality(req.errors), at |-> req.at ]

AnyReadFailedButPackages(req) == req.errors \ { "packages" } # {}

\* len(errors) > 0
AnyReadFailed(req) == req.errors # {}

\* One goroutine of the summary handler is done.
SummaryRead(r) ==
    /\ dashReq["summary"].pc = "reading"
    /\ r \in dashReq["summary"].todo
    /\ \E outcome \in ReadOutcomes :
          dashReq' = [ dashReq EXCEPT !["summary"] = AfterRead(@, r, outcome) ]
    /\ UNCHANGED << now, storeVars, presenceVars, restVars, statusVars, monitorVars, dispatchVars, runVars, webhookVars,
                    dashCache, dashResp >>

\* The response built from the parts that were read.
SummaryOf(req) == [ at |-> req.at, parts |-> req.got ]

\* The summary handler after wg.Wait.
SummaryRespond ==
    LET req == dashReq["summary"]
    IN  /\ req.pc = "reading"
        /\ req.todo = {}
        /\ dashReq' = [ dashReq EXCEPT !["summary"] = IdleRequest ]
        /\ IF AnyReadFailed(req)
             THEN /\ dashResp' = [ dashResp EXCEPT !["summary"] = ErrorResponse(req) ]
                  /\ UNCHANGED dashCache
             ELSE /\ dashCache' = CacheSet("summary", SummaryOf(req))
                  /\ dashResp' = [ dashResp EXCEPT !["summary"] =
                                     [ code |-> 200, data |-> << SummaryOf(req) >>,
                                       cached |-> FALSE,
                                       reads |-> Cardinality(DOMAIN req.got), at |-> req.at ] ]
        /\ UNCHANGED << now, storeVars, presenceVars, restVars, statusVars, monitorVars, dispatchVars, runVars, webhookVars >>

\* The read the enhanced handler makes next.
NextEnhancedRead(req) ==
    EnhancedReads[Len(EnhancedReads) - Cardinality(req.todo) + 1]

\* The next read of the enhanced handler; an error is answered at once.
EnhancedRead ==
    LET req == dashReq["enhanced"]
    IN  /\ req.pc = "reading"
        /\ req.todo # {}
        /\ \E outcome \in { "ok", "error" } :
              LET after == AfterRead(req, NextEnhancedRead(req), outcome)
              IN  IF outcome = "error"
                    THEN /\ dashReq' = [ dashReq EXCEPT !["enhanced"] = IdleRequest ]
                         /\ dashResp' = [ dashResp EXCEPT !["enhanced"] = ErrorResponse(after) ]
                    ELSE /\ dashReq' = [ dashReq EXCEPT !["enhanced"] = after ]
                         /\ UNCHANGED dashResp
        /\ UNCHANGED << now, storeVars, presenceVars, restVars, statusVars, monitorVars, dispatchVars, runVars, webhookVars,
                        dashCache >>

\* The enhanced handler after its three reads: the builders, of which the
\* agent health builder asks the agent service per agent and counts an agent
\* whose status cannot be read as offline.
EnhancedRespond ==
    LET req == dashReq["enhanced"]
    IN  /\ req.pc = "reading"
        /\ req.todo = {}
        /\ dashReq' = [ dashReq EXCEPT !["enhanced"] = IdleRequest ]
        /\ \E health \in { "ok", "undercounted" } :
              LET data == [ at |-> req.at,
                            parts |-> [ req.got EXCEPT !["agents"] = health ] ]
              IN  /\ dashCache' = CacheSet("enhanced", data)
                  /\ dashResp' = [ dashResp EXCEPT !["enhanced"] =
                                     [ code |-> 200, data |-> << data >>, cached |-> FALSE,
                                       reads |-> Cardinality(DOMAIN req.got), at |-> req.at ] ]
        /\ UNCHANGED << now, storeVars, presenceVars, restVars, statusVars, monitorVars, dispatchVars, runVars, webhookVars >>

\* Time passes between requests.
DashboardTick ==
    /\ now < MaxDashClock
    /\ \A kind \in DashboardKinds : dashReq[kind].pc = "idle"
    /\ now' = now + 1
    /\ UNCHANGED << storeVars, presenceVars, statusVars, monitorVars, handlerVars, restVars >>

NextDashboard ==
    \/ GetDashboardSummaryHandler
    \/ \E r \in SummaryReads : SummaryRead(r)
    \/ SummaryRespond
    \/ GetEnhancedDashboardSummaryHandler
    \/ EnhancedRead
    \/ EnhancedRespond
    \/ DashboardTick

SpecDashboard == Init /\ [][NextDashboard]_vars

(***************************************************************************)
(* The workflow run handlers.  Runs are not stored: both handlers query the *)
(* executions table and derive the runs from the rows that come back.       *)
(* runStore is that table in the order of started_at, with the columns the  *)
(* handlers use.                                                            *)
(***************************************************************************)
RunIDs == { "run-1", "run-2" }

ExecutionStatuses ==
    { "pending", "queued", "running", "succeeded", "failed", "cancelled", "timeout" }

NoRunResponse == [ kind |-> "", code |-> 0, run |-> "", page |-> 0, pageSize |-> 0,
                   runs |-> << >>, hasMore |-> FALSE ]

\* An execution of a run is inserted; started_at is its position in runStore.
CreateRunExecution(runID, status) ==
    /\ Len(runStore) < MaxRunRows
    /\ runStore' = Append(runStore, [ id |-> Len(runStore) + 1, run |-> runID,
                                      status |-> status, startedAt |-> Len(runStore) + 1 ])
    /\ UNCHANGED << now, storeVars, presenceVars, restVars, statusVars, monitorVars, dispatchVars,
                    dashVars, runResp, webhookVars >>

\* c.DefaultQuery("page", "1") and c.DefaultQuery("page_size", "20") as numbers.
PageInputs == 0..MaxPage
PageSizeInputs == 0..MaxPageSize \cup { PageSizeCeiling + 1 }

parsePositiveInt(v, fallback) == IF v <= 0 THEN fallback ELSE v

parsePositiveIntWithin(v, fallback, min, max) ==
    LET p == parsePositiveInt(v, fallback)
    IN  IF p < min THEN min ELSE IF p > max THEN max ELSE p

RECURSIVE ReverseRows(_)
ReverseRows(rows) ==
    IF rows = << >> THEN << >> ELSE Append(ReverseRows(Tail(rows)), Head(rows))

\* LIMIT and OFFSET of the query.
Window(rows, limit, offset) ==
    LET from == offset + 1
        to == IF limit > 0 /\ offset + limit < Len(rows) THEN offset + limit ELSE Len(rows)
    IN  IF from > Len(rows) THEN << >> ELSE SubSeq(rows, from, to)

\* QueryExecutionRecords ordered by started_at: the rows of run runID, or of
\* every run when runID is "", in the direction asked for, cut by LIMIT and
\* OFFSET.
QueryRunRows(runID, descending, limit, offset) ==
    LET matching == SelectSeq(runStore, LAMBDA row : runID = "" \/ row.run = runID)
        ordered == IF descending THEN ReverseRows(matching) ELSE matching
    IN  Window(ordered, limit, offset)

\* types.GroupExecutionsByRun: the rows of each run that occurs among them.
GroupExecutionsByRun(rows) ==
    [ runID \in { rows[i].run : i \in DOMAIN rows } |->
        SelectSeq(rows, LAMBDA row : row.run = runID) ]

StatusesOf(rows) == { rows[i].status : i \in DOMAIN rows }

DeriveFailureFirst(rows) ==
    LET present == StatusesOf(rows)
    IN  IF present \cap { "failed", "cancelled", "timeout" } # {} THEN "failed"
        ELSE IF "running" \in present THEN "running"
        ELSE IF present \cap { "pending", "queued" } # {} THEN "pending"
        ELSE "succeeded"

\* The overall status BuildWorkflowDAG derives, by precedence.
DeriveOverallStatus(rows) ==
    LET present == StatusesOf(rows)
    IN  IF "running" \in present THEN "running"
        ELSE IF present \cap { "pending", "queued" } # {} THEN "pending"
        ELSE IF present = { "succeeded" } THEN "succeeded"
        ELSE "failed"

CountOfStatuses(rows, statuses) ==
    Cardinality(StatusesOf(rows) \cap statuses)

CountOf(rows, statuses) ==
    Cardinality({ i \in DOMAIN rows : rows[i].status \in statuses })

\* summary.StatusCounts: a count for every status that occurs.
StatusCountsOf(rows) ==
    [ status \in StatusesOf(rows) |-> CountOf(rows, { status }) ]

RECURSIVE SortByStartedAt(_)
\* sort.Slice(executions, StartedAt ascending)
SortByStartedAt(rows) ==
    IF rows = << >> THEN << >>
    ELSE LET first == CHOOSE i \in DOMAIN rows :
                         \A j \in DOMAIN rows : rows[i].startedAt <= rows[j].startedAt
             rest == [ k \in 1..(Len(rows) - 1) |-> IF k < first THEN rows[k] ELSE rows[k + 1] ]
         IN  << rows[first] >> \o SortByStartedAt(rest)

\* summarizeRun for a run and the executions handed to it.
summarizeRun(runID, execs) ==
    LET sorted == SortByStartedAt(execs)
        status == DeriveOverallStatus(sorted)
    IN  [ run |-> runID,
          total |-> Len(execs),
          counts |-> StatusCountsOf(sorted),
          active |-> CountOf(sorted, ActiveStatuses),
          status |-> status,
          terminal |-> status \in { "succeeded", "failed" },
          startedAt |-> sorted[1].startedAt,
          updatedAt |-> sorted[Len(sorted)].startedAt ]

RECURSIVE SortSummaries(_)
\* sort.Slice(summaries, StartedAt descending)
SortSummaries(summaries) ==
    IF summaries = {} THEN << >>
    ELSE LET first == CHOOSE s \in summaries :
                         \A t \in summaries : s.startedAt >= t.startedAt
         IN  << first >> \o SortSummaries(summaries \ { first })

\* The page of execs ListWorkflowRunsHandler asks the store for.
ListedRows(page, pageSize) ==
    QueryRunRows("", TRUE, pageSize, (page - 1) * pageSize)

\* The summaries ListWorkflowRunsHandler answers with.
ListedRuns(page, pageSize) ==
    LET grouped == GroupExecutionsByRun(ListedRows(page, pageSize))
    IN  SortSummaries({ summarizeRun(runID, grouped[runID]) : runID \in DOMAIN grouped })

ListWorkflowRunsHandler(pageInput, pageSizeInput) ==
    LET page == parsePositiveInt(pageInput, 1)
        pageSize == parsePositiveIntWithin(pageSizeInput, DefaultPageSize, 1, PageSizeCeiling)
    IN  /\ runResp' = [ kind |-> "list", code |-> 200, run |-> "", page |-> page,
                        pageSize |-> pageSize, runs |-> ListedRuns(page, pageSize),
                        hasMore |-> Len(ListedRows(page, pageSize)) = pageSize ]
        /\ UNCHANGED << now, storeVars, presenceVars, restVars, statusVars, monitorVars, dispatchVars,
                        dashVars, runStore, webhookVars >>

\* run.status, total_steps, completed_steps and failed_steps of the detail.
GetWorkflowRunDetailHandler(runID) ==
    LET execs == QueryRunRows(runID, FALSE, DetailLimit, 0)
    IN  /\ runResp' =
              IF execs = << >>
                THEN [ NoRunResponse EXCEPT !.kind = "detail", !.code = 404, !.run = runID ]
                ELSE [ NoRunResponse EXCEPT
                         !.kind = "detail", !.code = 200, !.run = runID,
                         !.runs = << [ summarizeRun(runID, execs) EXCEPT
                                         !.counts = [ outcome \in { "succeeded", "failed" } |->
                                             IF outcome = "succeeded"
                                               THEN CountOf(execs, { "succeeded" })
                                               ELSE CountOf(execs,
                                                            { "failed", "cancelled", "timeout" }) ] ] >> ]
        /\ UNCHANGED << now, storeVars, presenceVars, restVars, statusVars, monitorVars, dispatchVars,
                        dashVars, runStore, webhookVars >>

NextRuns ==
    \/ \E runID \in RunIDs, status \in ExecutionStatuses : CreateRunExecution(runID, status)
    \/ \E page \in PageInputs, pageSize \in PageSizeInputs : ListWorkflowRunsHandler(page, pageSize)
    \/ \E runID \in RunIDs : GetWorkflowRunDetailHandler(runID)

SpecRuns == Init /\ [][NextRuns]_vars

(***************************************************************************)
(* Webhook enrichment.  GetExecutionRecord, UpdateExecutionRecord and       *)
(* QueryExecutionRecords fill the webhook fields of the records they hand   *)
(* back from the webhook tables; the lookups can fail.  The update is taken *)
(* here with no other transaction open, as one step.                        *)
(***************************************************************************)
NoWebhookReturn == [ op |-> "", id |-> "", kind |-> "", lookup |-> "", err |-> FALSE,
                     recs |-> {} ]

\* How the lookups of one call end: both answer, HasExecutionWebhook or
\* ListExecutionWebhooksRegistered fails, ListExecutionWebhookEvents fails,
\* or the context of a query is already done.
Lookups == { "ok", "registration-error", "events-error", "done" }

\* The updaters of the calls whose return is looked at here.
EnrichedUpdaterKinds == { "succeed", "enrich", "noop", "reject" }

\* A record as handed back, before enrichment: the webhook fields are zero.
Bare(row) == [ row |-> row, WebhookRegistered |-> FALSE, WebhookEvents |-> << >> ]

enrichExecutionWebhookOrBlank(rec, lookup, includeEvents) ==
    IF lookup = "ok"
      THEN [ rec EXCEPT !.WebhookRegistered = rec.row.ExecutionID \in DOMAIN webhookEvents ]
      ELSE [ rec EXCEPT !.row = NewRow(rec.row.ExecutionID, "", 0) ]

\* enrichExecutionWebhook on a record that is not nil.
enrichExecutionWebhook(rec, lookup, includeEvents) ==
    LET id == rec.row.ExecutionID
        registered == id \in DOMAIN webhookEvents
    IN  IF lookup = "registration-error" THEN rec
        ELSE IF ~registered \/ ~includeEvents
               THEN [ rec EXCEPT !.WebhookRegistered = registered ]
        ELSE IF lookup = "events-error"
               THEN [ rec EXCEPT !.WebhookRegistered = registered ]
        ELSE [ rec EXCEPT !.WebhookRegistered = registered,
                          !.WebhookEvents = webhookEvents[id] ]

\* populateWebhookRegistration on the records of a query.
populateWebhookRegistration(recs, lookup) ==
    IF recs = {} \/ lookup \in { "done", "registration-error" } THEN recs
    ELSE { [ rec EXCEPT !.WebhookRegistered = rec.row.ExecutionID \in DOMAIN webhookEvents ] :
             rec \in recs }

RegisterExecutionWebhook(id) ==
    /\ id \in DOMAIN executions
    /\ id \notin DOMAIN webhookEvents
    /\ webhookEvents' = [ e \in DOMAIN webhookEvents \cup {id} |->
                            IF e = id THEN << >> ELSE webhookEvents[e] ]
    /\ UNCHANGED << now, storeVars, presenceVars, restVars, statusVars, monitorVars, dispatchVars,
                    dashVars, runVars, whRet >>

\* A delivery attempt is appended to the events of a registered execution.
StoreExecutionWebhookEvent(id) ==
    /\ id \in DOMAIN webhookEvents
    /\ Len(webhookEvents[id]) < MaxWebhookEvents
    /\ webhookEvents' = [ webhookEvents EXCEPT ![id] = Append(@, "delivered") ]
    /\ UNCHANGED << now, storeVars, presenceVars, restVars, statusVars, monitorVars, dispatchVars,
                    dashVars, runVars, whRet >>

GetExecutionRecord(id, lookup) ==
    /\ lookup # "done"
    /\ LET exec == scanExecution(executions, id)
       IN  whRet' = [ op |-> "get", id |-> id, kind |-> "", lookup |-> lookup, err |-> FALSE,
                      recs |-> IF IsSome(exec)
                                 THEN { enrichExecutionWebhook(Bare(Get(exec)), lookup, TRUE) }
                                 ELSE {} ]
    /\ UNCHANGED << now, storeVars, presenceVars, restVars, statusVars, monitorVars, dispatchVars,
                    dashVars, runVars, webhookEvents >>

\* UpdateExecutionRecord with no other transaction open: SELECT, updater,
\* UPDATE, Commit, enrichExecutionWebhook, return.
UpdateExecutionRecord(id, kind, lookup) ==
    /\ lookup # "done"
    /\ \A p \in Callers : tx[p].pc = "idle"
    /\ reaper.pc = "idle"
    /\ LET current == scanExecution(executions, id)
           out == ApplyUpdater(kind, current, id, now)
       IN  IF out.err
             THEN /\ whRet' = [ op |-> "update", id |-> id, kind |-> kind, lookup |-> lookup,
                                err |-> TRUE, recs |-> {} ]
                  /\ UNCHANGED << executions, completed >>
           ELSE IF ~IsSome(out.rec)
             THEN /\ whRet' = [ op |-> "update", id |-> id, kind |-> kind, lookup |-> lookup,
                                err |-> FALSE,
                                recs |-> IF IsSome(current)
                                           THEN { enrichExecutionWebhook(Bare(Get(current)),
                                                                         lookup, TRUE) }
                                           ELSE {} ]
                  /\ UNCHANGED << executions, completed >>
           ELSE LET rec == Get(out.rec)
                IN  /\ executions' = WriteRow(executions, rec)
                    /\ completed' = IF rec.ExecutionID \in DOMAIN executions
                                      THEN [ completed EXCEPT ![rec.ExecutionID] = rec.Status ]
                                      ELSE completed
                    /\ whRet' = [ op |-> "update", id |-> id, kind |-> kind, lookup |-> lookup,
                                  err |-> FALSE,
                                  recs |-> { enrichExecutionWebhook(Bare(rec), lookup, TRUE) } ]
    /\ UNCHANGED << now, tx, ret, reaper, ret_reaper, serialCommits, calls, sweeps,
                    presenceVars, restVars, statusVars, monitorVars, dispatchVars, dashVars, runVars,
                    webhookEvents >>

\* QueryExecutionRecords with an empty filter.
QueryExecutionRecords(lookup) ==
    /\ lookup # "events-error"
    /\ whRet' = [ op |-> "query", id |-> "", kind |-> "", lookup |-> lookup, err |-> FALSE,
                  recs |-> populateWebhookRegistration(
                               { Bare(executions[e]) : e \in DOMAIN executions }, lookup) ]
    /\ UNCHANGED << now, storeVars, presenceVars, restVars, statusVars, monitorVars, dispatchVars,
                    dashVars, runVars, webhookEvents >>

NextWebhook ==
    \/ \E id \in ExecIds, st \in CreateStatuses : CreateExecutionRecord(id, st)
    \/ \E id \in ExecIds : RegisterExecutionWebhook(id)
    \/ \E id \in ExecIds : StoreExecutionWebhookEvent(id)
    \/ \E id \in ExecIds, lookup \in Lookups : GetExecutionRecord(id, lookup)
    \/ \E id \in ExecIds, kind \in EnrichedUpdaterKinds, lookup \in Lookups :
          UpdateExecutionRecord(id, kind, lookup)
    \/ \E lookup \in Lookups : QueryExecutionRecords(lookup)

SpecWebhook == Init /\ [][NextWebhook]_vars

\* UpdateExecutionRecord under updaters that are free in the record they
\* return: it may carry another ExecutionID than the one that was asked for.
FrameUpdaterKinds == { "succeed", "noop", "reject", "fresh", "retarget" }

NextFrame ==
    \/ \E id \in ExecIds, st \in CreateStatuses : CreateExecutionRecord(id, st)
    \/ \E id \in ExecIds, kind \in FrameUpdaterKinds : UpdateExecutionRecord(id, kind, "ok")
    \/ Tick

SpecFrame == Init /\ [][NextFrame]_vars

(***************************************************************************)
(* Properties of the execution store                                       *)
(***************************************************************************)

\* C1: once a row's status is terminal, no later step leaves the row with a
\* different terminal status.
OneTerminalTransition ==
    [][ \A e \in DOMAIN executions :
          (executions[e].Status \in TerminalStatuses
             /\ executions'[e].Status \in TerminalStatuses)
          => executions'[e].Status = executions[e].Status ]_vars

\* C2: an execution whose completion (an update writing a terminal status)
\* has committed keeps the status the dispatcher gave it, whatever the reaper
\* sweep that runs alongside does: the reaper never turns it into timeout.
ReaperSafety ==
    \A e \in ExecIds :
        completed[e] \in TerminalStatuses =>
            /\ e \in DOMAIN executions
            /\ executions[e].Status = completed[e]

\* C2 witness: the sweep selected a row as stale, the dispatcher's completion
\* committed, and the sweep's UPDATE for that row then matched nothing.
ReaperSkippedCompleted ==
    /\ reaper.pc = "updating"
    /\ \E k \in 1..Len(reaper.stale) :
         /\ k < reaper.i
         /\ completed[reaper.stale[k].id] \in {"succeeded", "failed"}
         /\ reaper.stale[k].id \notin reaper.written

\* C4: every committed UpdateExecutionRecord wrote the result of its updater
\* applied to the row as committed just before it (a serial order), never the
\* result on a stale read.
NoLostUpdates == serialCommits

\* C5: an UpdateExecutionRecord call that found no row for its id returns an
\* error.
CreationPrecedesUpdate == ret.missing => ret.err

\* C11: a step of a sweep changes only rows it selected, which are in
\* running, pending or queued when updated and started at or before the
\* cutoff; at most limit of them; of each only status, error_message,
\* completed_at and duration_ms; the selection takes the oldest stale rows and
\* at most limit of them; a call that returns at once (limit <= 0 among them)
\* changes nothing.
ReaperFrame ==
    [][ (reaper' # reaper \/ sweeps' # sweeps) =>
          /\ DOMAIN executions' = DOMAIN executions
          /\ Cardinality({ e \in DOMAIN executions : executions'[e] # executions[e] })
                 <= reaper.limit
          /\ \A e \in DOMAIN executions :
                executions'[e] # executions[e] =>
                   /\ \E k \in 1..Len(reaper.stale) : reaper.stale[k].id = e
                   /\ executions[e].Status \in ActiveStatuses
                   /\ executions[e].StartedAt <= reaper.cutoff
                   /\ executions'[e].ExecutionID = executions[e].ExecutionID
                   /\ executions'[e].StartedAt = executions[e].StartedAt
                   /\ executions'[e].ResultURI = executions[e].ResultURI
          /\ sweeps' # sweeps => executions' = executions
          /\ (reaper.pc = "idle" /\ reaper'.pc = "selected") =>
                /\ Len(reaper'.stale) <= reaper'.limit
                /\ \A k \in 1..Len(reaper'.stale) :
                      /\ IsStale(executions[reaper'.stale[k].id], reaper'.cutoff)
                      /\ \A e \in DOMAIN executions :
                            (/\ IsStale(executions[e], reaper'.cutoff)
                             /\ \A j \in 1..Len(reaper'.stale) : reaper'.stale[j].id # e)
                               => executions[reaper'.stale[k].id].StartedAt
                                     <= executions[e].StartedAt ]_vars

\* C11 witness: a sweep with limit 1 has timed out one of two stale rows and
\* left the other, which is no older, as it was.
ReaperTookOldestOnly ==
    /\ reaper.pc = "idle"
    /\ ret_reaper = [ count |-> 1, err |-> FALSE, discarded |-> 0 ]
    /\ \E e1, e2 \in DOMAIN executions :
          /\ executions[e1].Status = "timeout"
          /\ executions[e2].Status \in ActiveStatuses
          /\ executions[e2].StartedAt >= executions[e1].StartedAt
          /\ executions[e2].StartedAt < executions[e1].CompletedAt

\* C12: every row a sweep changes ends with status timeout, the fixed error
\* message, completed_at = the sweep's now and duration_ms = max(0, now -
\* started_at) in milliseconds.
ReaperResultValues ==
    [][ reaper' # reaper =>
          \A e \in DOMAIN executions :
             executions'[e] # executions[e] =>
                /\ executions'[e].Status = "timeout"
                /\ executions'[e].ErrorMessage = "execution timed out"
                /\ executions'[e].CompletedAt = reaper.now
                /\ executions'[e].DurationMS =
                      IF reaper.now > executions[e].StartedAt
                        THEN (reaper.now - executions[e].StartedAt) * TickMS
                        ELSE 0 ]_vars

\* C12 witness: a row started one tick before the sweep carries the timeout
\* values.
ReaperTimedOutRow ==
    \E e \in DOMAIN executions :
        /\ executions[e].Status = "timeout"
        /\ executions[e].ErrorMessage = "execution timed out"
        /\ executions[e].CompletedAt = executions[e].StartedAt + 1
        /\ executions[e].DurationMS = TickMS

\* C13: a row that is in running, pending or queued and started at least the
\* stale threshold ago leaves that state: the reaper times it out unless its
\* owner completes it first.
ReaperBackstop ==
    \A e \in ExecIds :
        [](( /\ e \in DOMAIN executions
             /\ IsStale(executions[e], now - BackstopThreshold) )
              => <>( \/ e \in DOMAIN executions /\ executions[e].Status = "timeout"
                     \/ completed[e] \in TerminalStatuses ))

\* C13 witness: with one row per sweep, both rows have been timed out.
ReaperReachedEveryRow ==
    \A e \in ExecIds :
        /\ e \in DOMAIN executions
        /\ executions[e].Status = "timeout"
        /\ completed[e] = ""

\* C14: a sweep that ends with an error returns count 0 and has changed no
\* row; one that ends without error returns the number of rows it changed.
ReaperBatchAtomic ==
    [][ (reaper.pc # "idle" /\ reaper'.pc = "idle") =>
          IF ret_reaper'.err
            THEN ret_reaper'.count = 0 /\ executions' = executions
            ELSE ret_reaper'.count =
                   Cardinality({ e \in DOMAIN executions : executions'[e] # executions[e] }) ]_vars

\* C14 witness: a sweep failed after it had updated a row; the row is still
\* in the state the sweep found it in.
ReaperRolledBack ==
    /\ reaper.pc = "idle"
    /\ ret_reaper.err
    /\ ret_reaper.count = 0
    /\ ret_reaper.discarded > 0
    /\ \A e \in DOMAIN executions : executions[e].Status # "timeout"

(***************************************************************************)
(* Properties of the presence manager                                      *)
(***************************************************************************)

\* C6: a lease untouched for at least HeartbeatTTL is marked offline by the
\* sweep; every marking leads to exactly one update to the status manager,
\* which says inactive, score 0, source presence; and between two touches of
\* an agent the sweep marks (and so notifies) at most once.
SoftExpiryExactlyOnce ==
    /\ \A n \in Nodes :
         /\ pmStats.episode[n] <= 1
         /\ pmStats.marks[n] = pmStats.issued[n]
                + (IF sweep.pc = "notify" /\ n \in sweep.expired THEN 1 ELSE 0)
    /\ lastOp.op = "checkExpirations" =>
         \A n \in DOMAIN leases :
             lastOp.at - leases[n].LastSeen >= HeartbeatTTL => leases[n].MarkedOffline
    /\ lastUpdate.node # "" =>
         /\ lastUpdate.state = "inactive"
         /\ lastUpdate.score = 0
         /\ lastUpdate.source = "presence"

\* C6 witness: a lease was marked offline, its one update went through, and a
\* later sweep has walked the still untouched lease without a second update.
SweptAgainAfterExpiry ==
    \E n \in DOMAIN leases :
        /\ leases[n].MarkedOffline
        /\ pmStats.marks[n] = 1
        /\ pmStats.issued[n] = 1
        /\ lastOp.op = "checkExpirations"
        /\ lastOp.at > leases[n].LastExpired
        /\ sweep.pc = "idle"
        /\ lastUpdate = [ node |-> n, state |-> "inactive", score |-> 0,
                          source |-> "presence", ok |-> TRUE,
                          read |-> FALSE, over |-> "" ]

\* C7: right after Touch(n, t) a lease for n exists with LastSeen = t and
\* MarkedOffline false; and a step that takes an existing lease from
\* MarkedOffline true to false is a Touch of that agent.
TouchSemantics ==
    /\ [](lastOp.op = "Touch" =>
            /\ lastOp.node \in DOMAIN leases
            /\ leases[lastOp.node].LastSeen = lastOp.at
            /\ ~leases[lastOp.node].MarkedOffline)
    /\ [][ \A n \in DOMAIN leases :
             (n \in DOMAIN leases' /\ leases[n].MarkedOffline /\ ~leases'[n].MarkedOffline)
                 => (lastOp'.op = "Touch" /\ lastOp'.node = n) ]_vars

\* C7 witness: a Touch has just revived a lease that was marked offline.
TouchRevivedLease ==
    /\ lastOp.op = "Touch"
    /\ lastOp.wasOffline
    /\ ~leases[lastOp.node].MarkedOffline

\* C8: a lease the sweep removes had been soft-expired for at least
\* HardEvictTTL when it was removed.
EvictionAfterHardTTL ==
    lastEvicted # None =>
        Get(lastEvicted).at - Get(lastEvicted).LastExpired >= HardEvictTTL

\* C9: a lease is marked offline no earlier than HeartbeatTTL after it was
\* last seen and less than HeartbeatTTL + SweepInterval after; a lease not
\* marked offline was last seen less than HeartbeatTTL + SweepInterval ago.
BoundedExpiryDetection ==
    \A n \in DOMAIN leases :
        /\ leases[n].MarkedOffline =>
             /\ leases[n].LastExpired - leases[n].LastSeen >= HeartbeatTTL
             /\ leases[n].LastExpired - leases[n].LastSeen < HeartbeatTTL + SweepInterval
        /\ ~leases[n].MarkedOffline =>
             now - leases[n].LastSeen < HeartbeatTTL + SweepInterval

\* C9 witness: a lease whose TTL ran out between two sweeps was marked by the
\* next one, one tick late.
ExpiryDetectedBySweep ==
    \E n \in DOMAIN leases :
        /\ leases[n].MarkedOffline
        /\ leases[n].LastExpired = leases[n].LastSeen + HeartbeatTTL + 1
        /\ agents[n] = "inactive"
        /\ pmStats.issued[n] = pmStats.marks[n]

(***************************************************************************)
(* Properties of the health monitor                                        *)
(***************************************************************************)

\* C3: when a poll pushes active for a monitored agent, the last inactive push
\* a poll made for that agent lies at least the stability window back.
DebounceHolds ==
    \A n \in Nodes :
        (hmPush[n].state = "active" /\ hmPush[n].inactiveAt # NullTime)
            => hmPush[n].at - hmPush[n].inactiveAt >= StabilityWindow

(***************************************************************************)
(* Properties of the status manager                                        *)
(***************************************************************************)

UnregisterPostcondition ==
    [][ (unified /\ unreg # "" /\ unreg' = "") =>
          /\ unreg \notin DOMAIN activeAgents'
          /\ unreg \notin DOMAIN leases'
          /\ lastUpdate'.node = unreg
          /\ lastUpdate'.state = "inactive"
          /\ lastUpdate'.score = 0 ]_vars

\* C16: a health poll issues a downstream update only when the mapped probe
\* result differs from the LastStatus recorded for the agent: the locked
\* block of the check issues nothing itself and hands over to the push only
\* on a difference, and every push of the monitor comes from such a hand-over.
PushOnlyOnChange ==
    [][ \A n \in Nodes :
          /\ (poll.pc = "apply" /\ poll.cur = n /\ poll' # poll) =>
                /\ UNCHANGED << statusVars, hmPush, leases >>
                /\ published' = << >>
                /\ (poll'.pc = "push" =>
                      /\ IsMonitored(n)
                      /\ activeAgents[n].LastStatus # poll.newStatus)
                /\ ((IsMonitored(n) /\ activeAgents[n].LastStatus = poll.newStatus) =>
                      poll'.pc # "push")
          /\ (hmPush'[n] # hmPush[n] /\ hmPush'[n] # NoPush) =>
                /\ poll.pc = "push"
                /\ poll.cur = n
                /\ poll.was # poll.newStatus
                /\ hmPush'[n].state = poll.newStatus ]_vars

\* An agent checked again after its last push: the later poll found no
\* change and pushed nothing.
PolledWithoutPush ==
    \E n \in DOMAIN activeAgents :
        /\ poll.cur # n
        /\ hmPush[n].at # NullTime
        /\ activeAgents[n].LastChecked > hmPush[n].at
        /\ activeAgents[n].LastStatus = hmPush[n].state

\* C17: when the health check of a monitored agent known to the store
\* returns after a "running" answer, the agent's presence lease has LastSeen
\* equal to the time of the poll and is not marked offline.
PollRefreshesLease ==
    [][ \A n \in Nodes :
          ( /\ poll.pc \in {"apply", "push"}
            /\ poll.cur = n
            /\ poll.newStatus = "active"
            /\ poll'.cur # n
            /\ IsMonitored(n)
            /\ agents[n] # "absent"
            /\ ~RegistryLocked ) =>
              /\ n \in DOMAIN leases'
              /\ leases'[n].LastSeen = now
              /\ ~leases'[n].MarkedOffline ]_vars

MCPNotifiesOnChange ==
    [][ IsSome(fetched') =>
          LET n == Get(fetched').node
              outcome == Get(fetched').outcome
              differs == /\ IsSome(outcome)
                         /\ \/ n \notin DOMAIN mcpHealthCache
                            \/ mcpHealthCache[n] # Get(outcome)
          IN  IF differs
                THEN /\ n \in DOMAIN mcpHealthCache'
                     /\ mcpHealthCache'[n] = Get(outcome)
                     /\ \A m \in DOMAIN mcpHealthCache' \ {n} :
                            m \in DOMAIN mcpHealthCache /\ mcpHealthCache'[m] = mcpHealthCache[m]
                     /\ published' = << "OnMCPHealthChanged" >>
                ELSE /\ mcpHealthCache' = mcpHealthCache
                     /\ published' = << >> ]_vars

\* The last fetch returned the summary that was cached already, and nothing
\* was published.
MCPFetchedIdentical ==
    /\ IsSome(fetched)
    /\ IsSome(Get(fetched).outcome)
    /\ Get(fetched).node \in DOMAIN mcpHealthCache
    /\ mcpHealthCache[Get(fetched).node] = Get(Get(fetched).outcome)
    /\ published = << >>

ReconcileFollowsProbe ==
    [][ \A n \in Nodes :
          ( /\ smRet'.seq = smRet.seq + 1
            /\ smRet'.node = n
            /\ clientCalls' = clientCalls + 1 ) =>
              /\ ~smRet'.err
              /\ ~smRet'.cached
              /\ IsSome(probed'[n])
              /\ Get(probed'[n]).answer = "error" =>
                    /\ smRet'.state = "inactive"
                    /\ agents'[n] = "inactive"
              /\ Get(probed'[n]).answer = "running" => smRet'.state = "active" ]_vars

\* A read whose probe failed for an agent an earlier probe had found active:
\* the read returned inactive and the store says inactive.
ReconciledToInactive ==
    \E n \in Nodes :
        /\ smRet.node = n
        /\ ~smRet.err
        /\ ~smRet.cached
        /\ smRet.state = "inactive"
        /\ clientCalls = 2
        /\ IsSome(probed[n])
        /\ Get(probed[n]).answer = "error"
        /\ Get(probed[n]).at = now
        /\ Get(probed[n]).clean
        /\ agents[n] = "inactive"

(***************************************************************************)
(* Properties of the execute handlers                                      *)
(***************************************************************************)

\* C22: a 200 answer of the synchronous handler carries a completed
\* execution: succeeded with the downstream result when the agent answered,
\* failed with the downstream error as errorMessage when the call failed or
\* timed out, never pending or running; the row says the same.
SyncDispatchCompletes ==
    (resp.kind = "execute" /\ resp.code = 200) =>
        /\ resp.id \in DOMAIN workflowExecutions
        /\ LET row == workflowExecutions[resp.id]
           IN  /\ row.answer # << >>
               /\ resp.status \in { "succeeded", "failed" }
               /\ row.status = resp.status
               /\ row.answer[1].ok =>
                     /\ resp.status = "succeeded"
                     /\ resp.result = row.answer[1].result
                     /\ row.result = row.answer[1].result
               /\ ~row.answer[1].ok =>
                     /\ resp.status = "failed"
                     /\ resp.error = row.answer[1].error
                     /\ row.error = row.answer[1].error

\* The downstream call ran into its deadline and the caller got a 200 with a
\* failed execution.
SyncTimedOutAnswered ==
    /\ resp.kind = "execute"
    /\ resp.code = 200
    /\ resp.status = "failed"
    /\ resp.error = "context deadline exceeded"

\* C23: the asynchronous handler answers 202 with status pending and the id
\* of a row that exists in the store at that moment; and a status query for
\* an execution whose downstream call has answered returns succeeded with
\* the result the agent gave.
AsyncDispatchTracked ==
    [][ /\ (resp' # resp /\ resp'.kind = "async" /\ resp'.code = 202) =>
              /\ resp'.status = "pending"
              /\ resp'.id # ""
              /\ resp'.id \notin DOMAIN workflowExecutions
              /\ resp'.id \in DOMAIN workflowExecutions'
              /\ workflowExecutions'[resp'.id].answer = << >>
        /\ ( /\ resp' # resp
             /\ resp'.kind = "status"
             /\ resp'.id \in DOMAIN workflowExecutions
             /\ workflowExecutions[resp'.id].answer # << >>
             /\ workflowExecutions[resp'.id].answer[1].ok ) =>
              /\ resp'.code = 200
              /\ resp'.status = "succeeded"
              /\ resp'.result = workflowExecutions[resp'.id].answer[1].result ]_vars

\* A status query returned the result of an execution dispatched
\* asynchronously.
AsyncResultQueried ==
    /\ resp.kind = "status"
    /\ resp.code = 200
    /\ resp.status = "succeeded"
    /\ resp.result = "answer-42"
    /\ ~workflowExecutions[resp.id].wait

\* C24: a dispatch whose target is an unknown agent or a function the agent
\* does not expose answers NotFound, and creates no row, saves no payload and
\* calls no downstream agent; no row ever has such a target.
UnknownTargetNoSideEffects ==
    /\ [](\A id \in DOMAIN workflowExecutions :
              workflowExecutions[id].target \in KnownTargets)
    /\ [][ ( /\ resp' # resp
             /\ resp'.kind \in { "execute", "async" }
             /\ resp'.target \notin KnownTargets ) =>
              /\ resp'.code = 404
              /\ UNCHANGED << workflowExecutions, payloads, downstream >> ]_vars

\* NotFound was answered for a function the known agent does not expose,
\* and every downstream call made so far belongs to a row.
UnknownFunctionRefused ==
    /\ resp.kind = "execute"
    /\ resp.code = 404
    /\ resp.target = "node-1.unknown"
    /\ workflowExecutions # << >>
    /\ downstream = Cardinality(DOMAIN workflowExecutions)
    /\ payloads = DOMAIN workflowExecutions

(***************************************************************************)
(* Properties of the dashboard handlers                                     *)
(***************************************************************************)

\* The step in which the handler of a dashboard finishes a computation.
DashboardFinishes(kind) ==
    /\ dashReq[kind].pc = "reading"
    /\ dashReq'[kind].pc = "idle"

DashboardArrives(kind) ==
    /\ dashReq[kind].pc = "idle"
    /\ \/ dashReq'[kind] # dashReq[kind]
       \/ dashResp'[kind] # dashResp[kind]

\* C26: Dashboard cache TTL.  A request that arrives less than 30 seconds
\* after a response was cached is answered with that response and makes no
\* read; a request that arrives 30 seconds after it or later is not answered
\* from the cache and starts the reads.
DashboardCacheTTL ==
    [][ \A kind \in DashboardKinds :
          (DashboardArrives(kind) /\ IsSome(dashCache[kind])) =>
            LET entry == Get(dashCache[kind])
            IN  IF now < entry.timestamp + DashboardTTL
                  THEN /\ dashResp'[kind] = [ code |-> 200, data |-> << entry.data >>,
                                              cached |-> TRUE, reads |-> 0, at |-> now ]
                       /\ dashReq'[kind] = dashReq[kind]
                       /\ dashCache'[kind] = dashCache[kind]
                  ELSE /\ dashResp'[kind] = dashResp[kind]
                       /\ dashReq'[kind].pc = "reading"
                       /\ dashReq'[kind].todo = ReadsOf(kind)
      ]_vars

\* C26 witness: the enhanced dashboard computed at time 0 was served from the
\* cache one tick before its expiry, and the summary cached at time 0 is
\* being recomputed by a request that arrived exactly at its expiry.
ServedUntilExpiry ==
    /\ dashResp["enhanced"].cached
    /\ Get(dashResp["enhanced"].data).at = 0
    /\ dashResp["enhanced"].at = DashboardTTL - 1
    /\ IsSome(dashCache["summary"])
    /\ Get(dashCache["summary"]).timestamp = 0
    /\ dashReq["summary"].pc = "reading"
    /\ dashReq["summary"].at = DashboardTTL

(***************************************************************************)
(* Properties of the workflow run handlers                                  *)
(***************************************************************************)

\* The stored executions of a run.
StoredRows(runID) == SelectSeq(runStore, LAMBDA row : row.run = runID)

\* C27: Run status precedence.  The status the run detail reports is
\* determined by the statuses of the stored executions of the run: running
\* if any is running; else pending or queued if any is pending or queued;
\* else succeeded if all succeeded; else a failure status, and then one of
\* them is failed, cancelled or timeout.  A terminal status is reported only
\* when no execution of the run is running, pending or queued.
RunStatusPrecedence ==
    [][ (runResp' # runResp /\ runResp'.kind = "detail" /\ runResp'.code = 200) =>
          LET present == StatusesOf(StoredRows(runResp'.run))
              status == runResp'.runs[1].status
          IN  /\ "running" \in present => status = "running"
              /\ ("running" \notin present /\ present \cap { "pending", "queued" } # {})
                    => status \in { "pending", "queued" }
              /\ (present \cap ActiveStatuses = {} /\ present = { "succeeded" })
                    => status = "succeeded"
              /\ (present \cap ActiveStatuses = {} /\ present # { "succeeded" })
                    => /\ status \in { "failed", "cancelled", "timeout" }
                       /\ present \cap { "failed", "cancelled", "timeout" } # {}
              /\ status \in TerminalStatuses => present \cap ActiveStatuses = {}
      ]_vars

\* C27 witness: the detail of run-1 was asked for when it had a succeeded and
\* a cancelled execution and reported a failure.
MixedRunReportedFailed ==
    /\ runResp.kind = "detail"
    /\ runResp.code = 200
    /\ runResp.run = "run-1"
    /\ runResp.runs[1].status = "failed"
    /\ runResp.runs[1].total = Len(StoredRows("run-1"))
    /\ StatusesOf(StoredRows("run-1")) = { "succeeded", "cancelled" }

\* C28: Run summaries are derived from the whole run.  Every summary that
\* ListWorkflowRuns returns counts all the stored executions of its run in
\* TotalExecutions, StatusCounts and ActiveExecutions, has the status of all
\* of them, and its run is on no other page of the same size.
RunSummariesCoverRun ==
    [][ (runResp' # runResp /\ runResp'.kind = "list") =>
          \A i \in DOMAIN runResp'.runs :
             LET summary == runResp'.runs[i]
                 all == StoredRows(summary.run)
             IN  /\ summary.total = Len(all)
                 /\ summary.counts = StatusCountsOf(all)
                 /\ summary.active = CountOf(all, ActiveStatuses)
                 /\ summary.status = DeriveOverallStatus(all)
                 /\ \A other \in 1..(MaxPage + 1) \ { runResp'.page } :
                       \A k \in DOMAIN ListedRuns(other, runResp'.pageSize) :
                          ListedRuns(other, runResp'.pageSize)[k].run # summary.run
      ]_vars

(***************************************************************************)
(* Properties of webhook enrichment                                         *)
(***************************************************************************)

\* C29: Webhook enrichment degrades gracefully.  When a webhook lookup of a
\* call fails, a read or a query still returns without error and leaves the
\* table as it was, an update fails only if its updater did and keeps what
\* it committed, every record returned has the fields of the stored row, a
\* query returns every row, and the webhook fields the lookup did not reach
\* are left out.
WebhookFailureDegrades ==
    [][ (whRet' # whRet /\ whRet'.lookup # "ok") =>
          LET r == whRet'
          IN  /\ r.op \in { "get", "query" } => (~r.err /\ executions' = executions)
              /\ r.op = "get" => (r.recs # {} <=> r.id \in DOMAIN executions)
              /\ r.op = "query" =>
                    { rec.row.ExecutionID : rec \in r.recs } = DOMAIN executions
              /\ r.op = "update" =>
                    /\ r.err <=> ApplyUpdater(r.kind, scanExecution(executions, r.id), r.id, now).err
                    /\ r.err => executions' = executions
                    /\ (~r.err /\ r.id \in DOMAIN executions) => r.recs # {}
              /\ \A rec \in r.recs :
                    /\ rec.row.ExecutionID \in DOMAIN executions'
                          => rec.row = executions'[rec.row.ExecutionID]
                    /\ rec.WebhookEvents = << >>
                    /\ r.lookup \in { "registration-error", "done" } => ~rec.WebhookRegistered
      ]_vars

\* C29 witness: an update completed an execution that has a webhook with a
\* delivery attempt, the events could not be listed, and the record came
\* back succeeded, as stored, without the events.
UpdateReturnedWithoutEvents ==
    /\ whRet.op = "update"
    /\ whRet.lookup = "events-error"
    /\ ~whRet.err
    /\ whRet.id \in DOMAIN webhookEvents
    /\ webhookEvents[whRet.id] # << >>
    /\ \E rec \in whRet.recs :
          /\ rec.row.Status = "succeeded"
          /\ rec.row = executions[whRet.id]
          /\ rec.WebhookRegistered
          /\ rec.WebhookEvents = << >>

(***************************************************************************)
(* Properties of the poll sweep                                             *)
(***************************************************************************)

\* A step of checkAgentHealth inside a sweep.
PollStep == poll' # poll /\ poll.pc # "idle"

\* The agent a step of checkAgentHealth is about.
PolledAgent ==
    IF poll.pc # "probe" THEN poll.cur
    ELSE IF poll'.pc = "apply" THEN poll'.cur
    ELSE CHOOSE n \in poll.agents : n \notin poll'.agents

\* What the monitor, the presence manager and the status manager hold for
\* node n.
HeldFor(n) ==
    [ registry |-> IF n \in DOMAIN activeAgents THEN Some(activeAgents[n]) ELSE None,
      lease    |-> IF n \in DOMAIN leases THEN Some(leases[n]) ELSE None,
      pushed   |-> hmPush[n],
      health   |-> agents[n],
      cached   |-> statusCache[n],
      mcp      |-> IF n \in DOMAIN mcpHealthCache THEN Some(mcpHealthCache[n]) ELSE None ]

\* C30: Per-agent failure isolation.  A step of the poll of agent A, whatever
\* the probe answered and whether or not the push went through, leaves the
\* registry entry, the lease, the pushed status, the persisted health and the
\* cached status of every other agent B as they were, and leaves every other
\* agent that the sweep has not polled yet in the sweep.
PollIsolated ==
    [][ PollStep =>
          \A B \in Nodes \ { PolledAgent } :
             /\ HeldFor(B)' = HeldFor(B)
             /\ B \in poll.agents => (poll'.pc # "idle" /\ B \in poll'.agents)
      ]_vars

\* C30 witness: in one sweep the probe of an agent failed and inactive was
\* pushed for it, while the other agent, active, is still to be polled.
FailedPollBesideActive ==
    \E A, B \in Nodes :
       /\ A # B
       /\ poll.pc = "probe"
       /\ poll.agents = { B }
       /\ hmPush[A].state = "inactive"
       /\ hmPush[A].at = now
       /\ B \in DOMAIN activeAgents
       /\ activeAgents[B].LastStatus = "active"
       /\ hmPush[B].state = "active"

(***************************************************************************)
(* Properties of the expiry callback                                        *)
(***************************************************************************)

\* C31: Expiry callback.  With a callback that stays registered, once the
\* sweep has gone through its expired slice and every goroutine it started
\* has run, the callback has been invoked once for every soft expiry of
\* every agent; and the sweep never waits for a goroutine it started.
CallbackPerExpiry ==
    \A n \in Nodes :
       (/\ expireCallback
        /\ ~callbacks.unset
        /\ sweep.pc = "idle"
        /\ callbacks.pending[n] = 0)
          => callbacks.invoked[n] = callbacks.due[n]

(***************************************************************************)
(* Properties of UnregisterAgent                                            *)
(***************************************************************************)

\* C32: Unregistering an agent that is not in the active registry is a
\* no-op.  The call returns with the registry lock released and has changed
\* neither the store, nor the status manager, nor the leases, nor what was
\* published, nor the registry.
UnregisterUnknownIsNoOp ==
    [][ (unregRet' # unregRet /\ ~unregRet'.found) =>
          /\ unreg' = ""
          /\ UNCHANGED << storeVars, statusVars, presenceVars, monitorVars, handlerVars >>
      ]_vars

\* C32 witness: an agent that holds a lease, is in the store and is not
\* monitored was unregistered, on a monitor without a status manager, while
\* the other agent is monitored.
UnknownAgentUnregistered ==
    /\ unregRet.node # ""
    /\ ~unregRet.found
    /\ ~unified
    /\ unregRet.node \in DOMAIN leases
    /\ agents[unregRet.node] # "absent"
    /\ unregRet.node \notin DOMAIN activeAgents
    /\ DOMAIN activeAgents # {}

\* C33: Unregister vs in-flight poll.  A step of checkAgentHealth for an
\* agent that is not in the registry and whose UnregisterAgent call has
\* returned pushes no active status for the agent and creates no presence
\* lease for it.
QuietAfterUnregister ==
    [][ \A n \in Nodes :
          (/\ ~IsMonitored(n)
           /\ unreg # n
           /\ poll.pc = "push"
           /\ poll.cur = n
           /\ poll' # poll) =>
             /\ hmPush'[n].state # "active"
             /\ (n \in DOMAIN leases' => n \in DOMAIN leases)
      ]_vars

(***************************************************************************)
(* The sweep's decision against a later Touch or Forget                     *)
(***************************************************************************)

\* C34: Sweep vs touch.  Every inactive update the presence sweep issues for
\* an agent is issued while the agent's lease exists and is still marked
\* offline: a Touch or a Forget between the scan and the update withholds
\* the update.
InactiveOnlyWhileMarked ==
    [][ \A n \in Nodes :
          pmStats'.issued[n] # pmStats.issued[n] =>
             /\ HasLease(n)
             /\ leases[n].MarkedOffline
      ]_vars

(***************************************************************************)
(* The monitor's signal against the presence sweep's                        *)
(***************************************************************************)

\* C35: Signal convergence.  For an agent that is registered with the health
\* monitor, sends no heartbeat and answers every poll with running, the
\* state last written to the status manager by the monitor and the presence
\* manager is, from some point on, always active.
RunningAgentEndsActive ==
    \A n \in Nodes : <>[](IsMonitored(n) => agents[n] = "active")

(***************************************************************************)
(* The frame of UpdateExecutionRecord                                       *)
(***************************************************************************)

\* C36: Update frame.  UpdateExecutionRecord(id, f) changes at most the row
\* whose execution_id is id, whatever record f returns: every other row is
\* as before, no row appears or disappears, and the row's execution_id is
\* the one it had.
UpdateChangesOnlyItsRow ==
    [][ (whRet' # whRet /\ whRet'.op = "update") =>
          /\ DOMAIN executions' = DOMAIN executions
          /\ \A e \in DOMAIN executions :
                /\ e # whRet'.id => executions'[e] = executions[e]
                /\ executions'[e].ExecutionID = e
      ]_vars

\* C37: Update failure leaves the row unchanged.  A call that returns from
\* its first step (nil updater, updater error, updater returning nil) has
\* opened no write and changed no row, and without an error it hands back
\* the current record; a call whose write is refused returns the error and
\* changes no row; a stored row changes only in the step that commits and
\* returns the updated record.
UpdateFailureLeavesRow ==
    [][ /\ (calls' # calls /\ tx' = tx) =>
             /\ executions' = executions
             /\ ret'.rec # "updated"
             /\ ~ret'.err => ret'.rec = IF ret'.missing THEN "nil" ELSE "current"
        /\ \A p \in Callers :
             (tx[p].pc = "read" /\ tx'[p].pc = "idle" /\ ret'.err) =>
                executions' = executions
        /\ (\E e \in DOMAIN executions : executions'[e] # executions[e]) =>
             \E p \in Callers :
                /\ tx[p].pc = "read"
                /\ tx'[p].pc = "idle"
                /\ ~ret'.err
                /\ ret'.rec = "updated"
      ]_vars

\* C37 witness: after a completion was committed, a write based on the row
\* as it was before has been refused; the completed row is as committed and
\* the call returned the error.
RefusedAfterCompletion ==
    /\ calls = MaxCalls
    /\ ret.err
    /\ ~ret.missing
    /\ \A p \in Callers : tx[p].pc = "idle"
    /\ \E e \in DOMAIN executions :
          /\ executions[e].Status = "succeeded"
          /\ completed[e] = "succeeded"

(***************************************************************************)
(* Freshness of a lease                                                     *)
(***************************************************************************)

\* C38: Lease freshness is monotonic.  No step moves the LastSeen of a lease
\* backwards, and a Touch whose timestamp is already HeartbeatTTL old when it
\* is applied leaves a lease that is marked offline marked, so that the sweep
\* does not notify a second time for the same silence.
LeaseFreshnessMonotonic ==
    [][ \A n \in DOMAIN leases :
          /\ n \in DOMAIN leases' => leases'[n].LastSeen >= leases[n].LastSeen
          /\ (/\ lastOp' # lastOp
              /\ lastOp'.op = "Touch"
              /\ lastOp'.node = n
              /\ now - lastOp'.at >= HeartbeatTTL
              /\ leases[n].MarkedOffline) => leases'[n].MarkedOffline
      ]_vars

(***************************************************************************)
(* Counters of a run summary                                                *)
(***************************************************************************)
RECURSIVE SumOver(_, _)
SumOver(counts, statuses) ==
    IF statuses = {} THEN 0
    ELSE LET st == CHOOSE x \in statuses : TRUE
         IN  counts[st] + SumOver(counts, statuses \ { st })

HealthCountsPartition ==
    healthResp.built =>
       LET health == healthResp.agentHealth
           overview == healthResp.overview
       IN  /\ health.Active + health.Degraded + health.Offline = health.Total
           /\ overview.ActiveAgents + overview.DegradedAgents + overview.OfflineAgents
                 = overview.TotalAgents
           /\ overview.TotalAgents = health.Total
           /\ overview.DegradedAgents = health.Degraded

HealthListCappedAndOrdered ==
    healthResp.built =>
       LET listed == healthResp.agentHealth.Agents
       IN  /\ Len(listed) <= HealthListCap
           /\ \A i, j \in DOMAIN listed :
                 i < j =>
                    /\ priority(listed[i].Status) <= priority(listed[j].Status)
                    /\ listed[i].Status = listed[j].Status =>
                          listed[i].LastHeartbeat >= listed[j].LastHeartbeat

\* C40: Agent health counts partition the fleet.  In an enhanced response
\* Active + Degraded + Offline = Total in the agent health, the overview
\* reports the same three counts, and the listed agents are at most 12, with
\* degraded before offline before running and the more recent heartbeat
\* first within a status.
HealthCountsAgree ==
    healthResp.built =>
       /\ HealthCountsPartition
       /\ healthResp.overview.ActiveAgents = healthResp.agentHealth.Active
       /\ healthResp.overview.OfflineAgents = healthResp.agentHealth.Offline
       /\ HealthListCappedAndOrdered

====
